---- MODULE Spec2Model ----
(***************************************************************************)
(* Model of workers/pull_request_worker/pull_request_worker.py             *)
(* (GitHubPullRequestWorker).                                               *)
(*                                                                         *)
(* Several state machines share the module:                                *)
(*   SpecFiles - the fetch loop of pull_request_files_model, which calls   *)
(*               graphql_paginate once per persisted pull request;         *)
(*   SpecRecon - the rest of pull_request_files_model: the fetched rows    *)
(*               are reconciled with the pull_request_files table;         *)
(*   SpecNested - graphql_paginate called with nested data subjects;       *)
(*   SpecPRs   - pull_requests_model: _get_pk_source_prs followed by the   *)
(*               four sub-models and the completion signal.                *)
(***************************************************************************)
EXTENDS Integers, Sequences, FiniteSets, TLC

(***************************************************************************)
(* Bounds of the model.                                                    *)
(***************************************************************************)
\* pull requests read from the pull_requests table by pull_request_files_model
NumPRs == 2
\* largest number of GraphQL pages the remote holds for one pull request
MaxPages == 3
\* largest number of non-successful responses / transport failures in one run
MaxFaults == 3

\* pull requests the remote repository holds
NumRemotePRs == 2
\* invocations of pull_requests_model by the worker
MaxRuns == 2

\* line 112: num_attempts = 3
NumAttempts == 3

VARIABLES
    \* ---- pull_request_files_model / graphql_paginate ----
    fpc,                \* control point of pull_request_files_model
    remotePages,        \* remote: number of GraphQL pages of the pull request queried
    prIndex,            \* index of the for loop over pr_numbers (line 199)
    pr_file_rows,       \* line 197
    before_parameters,  \* lines 79-82, 170-172: the 'files' entry
    has_previous_page,  \* line 85
    tuples,             \* line 87
    page_count,         \* line 107
    num_attempts,       \* line 112
    attempt,            \* iterations of `for attempt in range(num_attempts)` begun
    range_stop,         \* the stop value range() took when the for loop was entered
    success,            \* line 113
    page_info,          \* line 146
    data,               \* line 147
    cred,               \* credential carried by self.headers
    reqLog,             \* requests issued by the current graphql_paginate call
    callLog,            \* finished graphql_paginate calls of this run
    fexc,               \* exception that left pull_request_files_model, or NoExc
    faults,             \* non-successful responses so far (bounded by MaxFaults)
    \* ---- pull_requests_model / _get_pk_source_prs ----
    ppc,                \* control point of pull_requests_model
    runs,               \* invocations of pull_requests_model so far
    prTable,            \* pr_src_id of the rows of the pull_requests table
    self_pk_source_prs, \* line 56: self.pk_source_prs
    pk_source_prs,      \* line 575: local of pull_requests_model
    consumed,           \* fetched pull requests already handed to the insertion method
    source_prs,         \* line 538: what paginate_endpoint returned
    invoked,            \* sub-models invoked by this invocation, in order
    failed,             \* the fetch and the sub-models that raised in this invocation
    signals,            \* completion signals emitted by this invocation
    pexc,               \* exception that left pull_requests_model, or NoExc
    \* ---- pull_request_files_model: reconciliation with the table ----
    remote_rows,        \* remote: the rows the fetch loop builds from the dataset
    pull_request_files, \* rows of the pull_request_files table, in pr_file_id order
    table_values,       \* line 250
    need_insertion,     \* lines 267-269, 279
    need_updates,       \* lines 271-277, 280
    fruns,              \* runs of pull_request_files_model started so far
    after_complete,     \* the run before this one ended with its completion signal
    killed_at,          \* control point at which the run before this one was killed
    fsignals,           \* completion signals of pull_request_files_model
    write_errors,       \* errors logged by the two write loops (lines 305, 318)
    \* ---- graphql_paginate with nested data subjects ----
    npc,                \* control point of the innermost graphql_paginate frame
    root_subjects,      \* data_subjects of the outermost call
    data_subjects,      \* data_subjects of the innermost frame
    subject,            \* lines 81-82: the loop variable, in the innermost frame
    nested_before,      \* before_parameters, one dict shared by all frames
    outer_tuples,       \* tuples of the frames that wait at line 183, concatenated
    depth,              \* number of frames
    nresult,            \* value the outermost call returned
    nexc,               \* exception that left the outermost call, or NoExc
    \* ---- pr_comments_insert and the review messages of the reviews model ----
    cpc,                \* control point
    cmodel,             \* "comments" (lines 655-755) or "reviews" (lines 1050-1158)
    inc_pr_comments,    \* inc_pr_comments['insert'] / review_msgs['insert']
    message_table,      \* platform_msg_id of the rows of the message table
    pull_requests_table,          \* pr_url of the persisted pull requests
    pull_request_reviews_table,   \* pr_review_src_id of the persisted reviews
    c_pk_source_comments,         \* lines 703, 1085
    both_pk_source_comments,      \* lines 721, 1096
    cbound,             \* which of the two locals above are bound
    pr_message_ref_insert,        \* lines 733, 1102: the rows handed to bulk_insert
    pull_request_message_ref_table,
    pull_request_review_message_ref_table,
    clog,               \* the steps attempted so far, in order
    cfailed,            \* the steps whose operation raised
    cexc,               \* exception that left the function, or NoExc
    \* ---- pull_request_nested_data_model ----
    dpc,                \* control point
    nested_prs,         \* the pk_source_prs argument: the shape of each pull request
    index,              \* line 1182
    pr_nested_loop,     \* line 1209
    attempts,           \* stages attempted for the pull request at index, in order
    stage_raised,       \* stages that raised for the pull request at index
    looped,             \* indices of the pull requests whose stage loop has ended
    dexc,               \* exception that left the model, or NoExc
    \* ---- pull_request_commits_model ----
    kpc,                \* control point
    urls,               \* line 342: the number of pull requests of the repository
    pull_request,       \* line 344: position of the loop in urls
    pr_commits,         \* line 353: what paginate returned for the pull request
    position,           \* line 358: position of the loop in pr_commits
    commit_rows,        \* positions of the commits of this pull request inserted
    commit_raised,      \* positions of the commits whose handling raised
    ksignals,           \* 'pull_request_commits' completion signals
    \* ---- pull_request_events_model ----
    epc,                \* control point
    pr_events,          \* line 813: pr_events['insert']
    pr_issue_urls,      \* pr_issue_url of the persisted pull requests
    pk_pr_events,       \* lines 831-849
    pr_events_insert,   \* lines 863-884: the rows handed to bulk_insert
    pull_request_events,          \* pr_platform_event_id of the rows of the table
    eexc,               \* exception that left the model, or NoExc
    \* ---- query_pr_repo ----
    qpc,                \* control point
    calls,              \* calls of query_pr_repo begun so far
    new_pr_repo,        \* line 1408: the repo record with its flag
    pull_request_repo,  \* rows of the pull_request_repo table
    results_counter,    \* line 1436: self.results_counter
    qexc                \* exception that left query_pr_repo, or NoExc

fvars == <<fpc, remotePages, prIndex, pr_file_rows, before_parameters,
           has_previous_page, tuples, page_count, num_attempts, attempt,
           range_stop, success, page_info, data, cred, reqLog, callLog,
           fexc, faults>>

pvars == <<ppc, runs, prTable, self_pk_source_prs, pk_source_prs, consumed,
           source_prs, invoked, failed, signals, pexc>>

rvars == <<remote_rows, pull_request_files, table_values, need_insertion,
           need_updates, fruns, after_complete, killed_at, fsignals,
           write_errors>>

nvars == <<npc, root_subjects, data_subjects, subject, nested_before,
           outer_tuples, depth, nresult, nexc>>

cvars == <<cpc, cmodel, inc_pr_comments, message_table, pull_requests_table,
           pull_request_reviews_table, c_pk_source_comments,
           both_pk_source_comments, cbound, pr_message_ref_insert,
           pull_request_message_ref_table,
           pull_request_review_message_ref_table, clog, cfailed, cexc>>

dvars == <<dpc, nested_prs, index, pr_nested_loop, attempts, stage_raised,
           looped, dexc>>

kvars == <<kpc, urls, pull_request, pr_commits, position, commit_rows,
           commit_raised, ksignals>>

evars == <<epc, pr_events, pr_issue_urls, pk_pr_events, pr_events_insert,
           pull_request_events, eexc>>

qvars == <<qpc, calls, new_pr_repo, pull_request_repo, results_counter, qexc>>

vars == <<fvars, pvars, rvars, nvars, cvars, dvars, kvars, evars, qvars>>

NoExc == "none"
NoPage == [startCursor |-> 0, hasPreviousPage |-> FALSE]

(***************************************************************************)
(* The remote GraphQL endpoint.                                            *)
(***************************************************************************)
\* the `files` connection of the pull request queried is served backwards in
\* pages 1..remotePages; page p carries one edge and startCursor p
Edges(pr, p) ==
    << [node |-> [path |-> p, additions |-> pr, deletions |-> 0]] >>

\* lines 79-82: every data subject starts with the empty before parameter
EmptyBefore == << >>

\* lines 170-172: ', before: "{}"'.format(page_info['startCursor'])
FormatBefore(cursor) == << "before", cursor >>

\* the page the endpoint serves for a before parameter: the last page of the
\* connection for the empty parameter, else the page preceding the cursor
PageOfBefore(before) ==
    IF Len(before) = 0 THEN 1 ELSE before[2] + 1

\* a response carrying the 'data' key
DataResponse(pr, before) ==
    LET p == PageOfBefore(before) IN
    [kind |-> "data",
     pageInfo |-> [startCursor |-> p, hasPreviousPage |-> p < remotePages],
     edges |-> Edges(pr, p)]

\* types of the first entry of an 'errors' envelope
ErrorTypes == {"NOT_FOUND", "RATE_LIMITED", "OTHER"}

AbuseMessage == "You have triggered an abuse detection mechanism."

\* 'message' of a JSON body with neither 'errors' nor 'data'; any other
\* message leaves the loop's state as an 'errors' entry of type OTHER does
Messages == {"Not Found", AbuseMessage, "Bad credentials"}

\* bodies that response.json() rejects, by the substrings the code tests for
TextBodies == {"errors", "data", "html"}

(***************************************************************************)
(* pull_request_files_model, lines 187-258: the fetch loop, and            *)
(* graphql_paginate, lines 61-184, for data_subjects = {'files': None}.    *)
(***************************************************************************)
\* for_pr: line 199; for_attempt: line 115; return: line 181; fetched: line
\* 240; raised: an exception has left pull_request_files_model; classified:
\* line 287; updated: line 308; inserted: line 321; done: the model returned;
\* killed: the worker process was killed during the run
FilesControl == {"for_pr", "for_attempt", "return", "fetched", "raised",
                 "classified", "updated", "inserted", "done", "killed"}

\* lines 228-236: the row built from one edge
FileRow(pull_request_id, pr_file) ==
    [pull_request_id |-> pull_request_id,
     pr_file_additions |-> pr_file.node.additions,
     pr_file_deletions |-> pr_file.node.deletions,
     pr_file_path |-> pr_file.node.path]

FileRows(pull_request_id, edges) ==
    [i \in 1..Len(edges) |-> FileRow(pull_request_id, edges[i])]

FilesIdle ==
    /\ fpc = "for_pr"
    /\ remotePages = 0
    /\ prIndex = 1
    /\ pr_file_rows = << >>
    /\ before_parameters = EmptyBefore
    /\ has_previous_page = TRUE
    /\ tuples = << >>
    /\ page_count = 0
    /\ num_attempts = NumAttempts
    /\ attempt = 0
    /\ range_stop = 0
    /\ success = FALSE
    /\ page_info = NoPage
    /\ data = << >>
    /\ cred = 1
    /\ reqLog = << >>
    /\ callLog = << >>
    /\ fexc = NoExc
    /\ faults = 0

\* line 199, lines 79-87 and 108-115: the loop takes the next pull request and
\* calls graphql_paginate(query, {'files': None}), which enters its while loop
\* (has_previous_page is True) and the for loop of page 1; the remote holds
\* 1..MaxPages pages for that pull request
FilesNextPR ==
    /\ fpc = "for_pr"
    /\ prIndex <= NumPRs
    /\ remotePages' \in 1..MaxPages
    /\ before_parameters' = EmptyBefore
    /\ has_previous_page' = TRUE
    /\ tuples' = << >>
    /\ page_count' = 1
    /\ num_attempts' = NumAttempts
    /\ success' = FALSE
    /\ attempt' = 0
    /\ range_stop' = NumAttempts
    /\ reqLog' = << >>
    /\ fpc' = "for_attempt"
    /\ UNCHANGED <<prIndex, pr_file_rows, page_info, data, cred, callLog,
                   fexc, faults, pvars, rvars, nvars, cvars, dvars, kvars, evars, qvars>>

\* line 199: the loop over pr_numbers is exhausted
FilesLoopEnd ==
    /\ fpc = "for_pr"
    /\ prIndex > NumPRs
    /\ fpc' = "fetched"
    /\ UNCHANGED <<remotePages, prIndex, pr_file_rows, before_parameters,
                   has_previous_page, tuples, page_count, num_attempts,
                   attempt, range_stop, success, page_info, data, cred,
                   reqLog, callLog, fexc, faults, pvars, rvars, nvars, cvars, dvars, kvars, evars, qvars>>

\* variant: one iteration too many
MoreAttemptsOffByOne(done) == done <= range_stop

\* line 115: for attempt in range(num_attempts): the iterator is built once,
\* when the loop is entered; after `done` iterations it has values left or not
MoreAttempts(done) == done < range_stop

\* line 115: the body of the for loop is entered
CanIssue ==
    /\ fpc = "for_attempt"
    /\ MoreAttempts(attempt)

\* lines 119-120: one POST with the current before parameter and headers
Logged(kind) ==
    Append(reqLog, [page |-> page_count, before |-> before_parameters,
                    cred |-> cred, kind |-> kind])

Fault ==
    /\ faults < MaxFaults
    /\ faults' = faults + 1

\* the frame of graphql_paginate is gone once the call has returned or an
\* exception has left it
FrameGone ==
    /\ before_parameters' = EmptyBefore
    /\ has_previous_page' = TRUE
    /\ tuples' = << >>
    /\ page_count' = 0
    /\ num_attempts' = NumAttempts
    /\ attempt' = 0
    /\ range_stop' = 0
    /\ success' = FALSE
    /\ page_info' = NoPage
    /\ data' = << >>
    /\ reqLog' = << >>
    /\ remotePages' = 0

\* an exception raised inside the for loop: neither graphql_paginate nor
\* pull_request_files_model has a handler, so it leaves the model
Raise(exception) ==
    /\ Fault
    /\ fexc' = exception
    /\ fpc' = "raised"
    /\ FrameGone
    /\ UNCHANGED <<prIndex, pr_file_rows, cred, callLog, pvars, rvars, nvars, cvars, dvars, kvars, evars, qvars>>

\* lines 119-120: requests.post raises
PostConnectionError ==
    /\ CanIssue
    /\ Raise("ConnectionError")

\* lines 124-127 and 129-164 for a body response.json() rejects: data is the
\* text; 'errors' in data and 'data' in data are substring tests, and the
\* subscripts data['errors'][0], data.items() and data['message'] raise
TextException(body) ==
    IF body = "errors" THEN "TypeError"
    ELSE IF body = "data" THEN "AttributeError"
    ELSE "TypeError"

RespText ==
    /\ CanIssue
    /\ \E body \in TextBodies : Raise(TextException(body))

\* lines 131, 137: data['errors'][0]['type'] of an entry that has no 'type'
RespErrorsNoType ==
    /\ CanIssue
    /\ Raise("KeyError")

\* line 151: data['message'] of a JSON body that has no 'message' key either
RespNoMessage ==
    /\ CanIssue
    /\ Raise("KeyError")

\* update_gh_rate_limit(response, bad_credentials=...) of the worker base
\* class: an invalid credential is taken out of use, any other call keeps it
UpdateGhRateLimit(c, bad_credentials) ==
    IF bad_credentials THEN c + 1 ELSE c

\* variant: a rate-limit signal ends the attempts for the page
ErrorsControlRateLimitBreaks(t) ==
    IF t \in {"NOT_FOUND", "RATE_LIMITED"} THEN "break" ELSE "continue"

\* lines 131-140: what the for loop does after an 'errors' body whose first
\* entry has type t
ErrorsControl(t) ==
    IF t = "NOT_FOUND" THEN "break" ELSE "continue"

\* variant: 'Not Found' is retried like any other message
MessageControlNoBreak(m) == "continue"

\* lines 151-164: what the for loop does after a body with 'message' m (the
\* end of the loop body is reached unless the message is 'Not Found')
MessageControl(m) ==
    IF m = "Not Found" THEN "break" ELSE "continue"

\* lines 139, 161: num_attempts -= 1 after a rate-limit or abuse signal
NumAttemptsAfter(kind) ==
    IF kind \in {"RATE_LIMITED", AbuseMessage} THEN num_attempts - 1
    ELSE num_attempts

\* variant: a page that was not fetched raises instead of leaving the loop
PageFailedRaises ==
    /\ fpc' = "raised"
    /\ fexc' = "Exception"
    /\ UNCHANGED <<before_parameters, has_previous_page, tuples, page_count,
                   success, page_info, data>>

\* lines 166-168: after the for loop, `if not success: break` leaves the while
\* loop with the cursor, has_previous_page and tuples as they were; line 181
\* is reached and no exception is raised
PageFailed ==
    /\ fpc' = "return"
    /\ fexc' = fexc
    /\ UNCHANGED <<before_parameters, has_previous_page, tuples, page_count,
                   success, page_info, data>>

\* lines 129-164: a response that is not a page: the for loop continues with
\* its next iteration, or is left by break or because the iterator is
\* exhausted, and then success is False
NoPageResponse(kind, control) ==
    /\ Fault
    /\ reqLog' = Logged(kind)
    /\ attempt' = attempt + 1
    /\ num_attempts' = NumAttemptsAfter(kind)
    /\ cred' = UpdateGhRateLimit(cred, kind = "Bad credentials")
    /\ IF control = "continue" /\ MoreAttempts(attempt + 1)
       THEN /\ fpc' = "for_attempt"
            /\ UNCHANGED <<before_parameters, has_previous_page, tuples,
                           page_count, success, page_info, data, fexc>>
       ELSE PageFailed
    /\ UNCHANGED <<remotePages, prIndex, pr_file_rows, range_stop, callLog,
                   pvars, rvars, nvars, cvars, dvars, kvars, evars, qvars>>

\* lines 129-140: the body has an 'errors' key
RespErrors ==
    /\ CanIssue
    /\ \E t \in ErrorTypes : NoPageResponse(t, ErrorsControl(t))

\* lines 149-164: a JSON body with neither 'errors' nor 'data'
RespMessage ==
    /\ CanIssue
    /\ \E m \in Messages : NoPageResponse(m, MessageControl(m))

\* variant: the new page is put in front
AccumulatePrepend(acc, edges) == edges \o acc

\* line 175: tuples += data
Accumulate(acc, edges) == acc \o edges

\* variant: the cursor is not advanced
NextBeforeStale(info) == EmptyBefore

\* variant: the cursor moves past the page that follows
NextBeforeSkipping(info) == FormatBefore(info.startCursor + 1)

\* lines 170-172: the before parameter sent for the page after page_info
NextBefore(info) == FormatBefore(info.startCursor)

\* lines 143-148 and 166-175, then 108-115: the body has a 'data' key: success,
\* the for loop is left, the cursor advances, the edges are accumulated, and
\* the while loop begins the next page or ends
RespData ==
    LET response == DataResponse(prIndex, before_parameters) IN
    /\ CanIssue
    /\ reqLog' = Logged("data")
    /\ page_info' = response.pageInfo
    /\ data' = response.edges
    /\ before_parameters' = NextBefore(response.pageInfo)
    /\ has_previous_page' = response.pageInfo.hasPreviousPage
    /\ tuples' = Accumulate(tuples, response.edges)
    /\ IF response.pageInfo.hasPreviousPage
       THEN /\ page_count' = page_count + 1
            /\ num_attempts' = NumAttempts
            /\ success' = FALSE
            /\ attempt' = 0
            /\ fpc' = "for_attempt"
       ELSE /\ success' = TRUE
            /\ attempt' = attempt + 1
            /\ fpc' = "return"
            /\ UNCHANGED <<page_count, num_attempts>>
    /\ UNCHANGED <<remotePages, prIndex, pr_file_rows, range_stop, cred,
                   callLog, fexc, faults, pvars, rvars, nvars, cvars, dvars, kvars, evars, qvars>>

\* kinds of response after which the for loop is left by break, lines 136, 156
NotFoundKinds == {"NOT_FOUND", "Not Found"}

\* why the while loop of the running call was left: the source reported no
\* previous page, a not-found signal came, or a page's attempts all failed
StopReason ==
    IF ~has_previous_page THEN "complete"
    ELSE IF Len(reqLog) > 0 /\ reqLog[Len(reqLog)].kind \in NotFoundKinds
         THEN "not_found"
    ELSE "abandoned"

\* lines 177-181 and 228-237: graphql_paginate returns tuples (nest is None)
\* and the caller appends one row per edge
PaginateReturn ==
    /\ fpc = "return"
    /\ pr_file_rows' = pr_file_rows \o FileRows(prIndex, tuples)
    /\ callLog' = Append(callLog, [pr |-> prIndex, result |-> tuples,
                                   stop |-> StopReason])
    /\ prIndex' = prIndex + 1
    /\ fpc' = "for_pr"
    /\ FrameGone
    /\ UNCHANGED <<cred, fexc, faults, pvars, rvars, nvars, cvars, dvars, kvars, evars, qvars>>

(***************************************************************************)
(* pull_requests_model, lines 561-627, and _get_pk_source_prs, lines       *)
(* 386-559.                                                                *)
(***************************************************************************)
\* idle: no invocation is running (the last one, if any, returned);
\* paginate: inside paginate_endpoint, line 538; final_insert: line 551;
\* after_fetch: line 588; comments, events, reviews, nested: the try blocks
\* of lines 589-623, entered one after the other; signal: line 627;
\* raised: an exception has left pull_requests_model
PRsControl == {"idle", "paginate", "final_insert", "after_fetch", "comments",
               "events", "reviews", "nested", "signal", "raised"}

RemotePRs == 1..NumRemotePRs

NoBatch == [all |-> {}, insert |-> {}, update |-> {}, nullActor |-> {}]

\* what paginate_endpoint hands to the insertion method or returns, for the
\* pull requests a fetched since the last hand-over: the fetched pull requests
\* (all), those with no row in pull_requests (insert), some of those with a
\* row (update), and the pull requests to insert whose actor enrich_cntrb_id
\* could not resolve (nullActor: cntrb_id is None)
Batches(a) ==
    {[all |-> a, insert |-> a \ prTable, update |-> u, nullActor |-> n] :
        u \in SUBSET (a \cap prTable), n \in SUBSET (a \ prTable)}

RECURSIVE SetToSeq(_)
\* the elements of a set of numbers in increasing order
SetToSeq(S) ==
    IF S = {} THEN << >>
    ELSE LET m == CHOOSE x \in S : \A y \in S : x <= y
         IN << m >> \o SetToSeq(S \ {m})

\* exceptions (subclasses of Exception) raised by paginate_endpoint and by the
\* sub-models
RaisedExceptions == {"ConnectionError", "KeyError"}

\* Python's None, and a dict given by its items in insertion order
NoneValue == [none |-> TRUE, items |-> << >>]
DictOf(items) == [none |-> FALSE, items |-> items]
Unbound == "unbound"

\* JSON null, Python None, SQL NULL
Null == 0

\* neither pr_comments_insert nor the reviews model is running
CommentsIdle ==
    /\ cpc = "idle"
    /\ cmodel = "comments"
    /\ inc_pr_comments = {}
    /\ message_table = {}
    /\ pull_requests_table = {}
    /\ pull_request_reviews_table = {}
    /\ c_pk_source_comments = {}
    /\ both_pk_source_comments = {}
    /\ cbound = {}
    /\ pr_message_ref_insert = {}
    /\ pull_request_message_ref_table = {}
    /\ pull_request_review_message_ref_table = {}
    /\ clog = << >>
    /\ cfailed = {}
    /\ cexc = NoExc

\* pull_request_nested_data_model is not running
NestedDataIdle ==
    /\ dpc = "idle"
    /\ nested_prs = << >>
    /\ index = 0
    /\ pr_nested_loop = 0
    /\ attempts = << >>
    /\ stage_raised = {}
    /\ looped = {}
    /\ dexc = NoExc

\* pull_request_commits_model is not running
CommitsIdle ==
    /\ kpc = "idle"
    /\ urls = 0
    /\ pull_request = 0
    /\ pr_commits = << >>
    /\ position = 0
    /\ commit_rows = {}
    /\ commit_raised = {}
    /\ ksignals = 0

\* pull_request_events_model is not running
EventsIdle ==
    /\ epc = "idle"
    /\ pr_events = {}
    /\ pr_issue_urls = {}
    /\ pk_pr_events = {}
    /\ pr_events_insert = {}
    /\ pull_request_events = {}
    /\ eexc = NoExc

\* the record of query_pr_repo before any call
NoRepo == [id |-> 0, type |-> "none", flag |-> "none", wellformed |-> TRUE]

\* query_pr_repo has not been called
RepoIdle ==
    /\ qpc = "idle"
    /\ calls = 0
    /\ new_pr_repo = NoRepo
    /\ pull_request_repo = {}
    /\ results_counter = 0
    /\ qexc = NoExc

\* no call of graphql_paginate with nested data subjects has begun
NestedIdle ==
    /\ npc = "idle"
    /\ root_subjects = NoneValue
    /\ data_subjects = NoneValue
    /\ subject = Unbound
    /\ nested_before = {}
    /\ outer_tuples = << >>
    /\ depth = 0
    /\ nresult = NoneValue
    /\ nexc = NoExc

\* no run of the reconciliation has begun
\* no write has failed
NoWriteErrors == [update |-> 0, insert |-> 0]

ReconIdle ==
    /\ remote_rows = << >>
    /\ pull_request_files = << >>
    /\ table_values = << >>
    /\ need_insertion = << >>
    /\ need_updates = << >>
    /\ fruns = 0
    /\ after_complete = FALSE
    /\ killed_at = "none"
    /\ fsignals = 0
    /\ write_errors = NoWriteErrors

PRsIdle ==
    /\ ppc = "idle"
    /\ runs = 0
    /\ prTable = {}
    /\ self_pk_source_prs = << >>
    /\ pk_source_prs = << >>
    /\ consumed = 0
    /\ source_prs = NoBatch
    /\ invoked = << >>
    /\ failed = {}
    /\ signals = << >>
    /\ pexc = NoExc

\* variant: the handler catches KeyError only
ExceptKeyError(exception) == exception = "KeyError"

\* lines 579, 592, 601, 610, 619: `except Exception` catches every exception
\* derived from Exception
ExceptException(exception) ==
    exception \in RaisedExceptions \cup {"NameError"}

\* lines 561-578: pull_requests_model is invoked; pk_source_prs = [] and
\* _get_pk_source_prs calls paginate_endpoint
PRsStart ==
    /\ ppc = "idle"
    /\ runs < MaxRuns
    /\ runs' = runs + 1
    /\ pk_source_prs' = << >>
    /\ consumed' = 0
    /\ source_prs' = NoBatch
    /\ invoked' = << >>
    /\ failed' = {}
    /\ signals' = << >>
    /\ ppc' = "paginate"
    /\ UNCHANGED <<prTable, self_pk_source_prs, pexc, fvars, rvars, nvars, cvars, dvars, kvars, evars, qvars>>

\* variant: a failed fetch ends the invocation at once
FetchRaisesAborts(exception) ==
    /\ failed' = failed \cup {"fetch"}
    /\ ppc' = "idle"
    /\ pexc' = pexc

\* lines 577-583: an exception leaves _get_pk_source_prs; the handler of
\* pull_requests_model catches it and pk_source_prs stays []
FetchRaises(exception) ==
    /\ failed' = failed \cup {"fetch"}
    /\ IF ExceptException(exception)
       THEN /\ ppc' = "after_fetch"
            /\ pexc' = pexc
       ELSE /\ ppc' = "raised"
            /\ pexc' = exception

\* lines 411-529: pk_source_increment_insert(inc_source_prs, action_map):
\* "empty" when it signals completion and returns False (lines 415-418),
\* "NameError" when a record to insert has no cntrb_id and line 461 calls
\* is_nan, a name that is bound in the class body only (line 58),
\* "ok" when it reaches line 529
IncrementOutcome(batch) ==
    IF batch.all = {} THEN "empty"
    ELSE IF batch.insert \cap batch.nullActor # {} THEN "NameError"
    ELSE "ok"

\* lines 499-506: the rows of pull_requests after the bulk insert
TableAfter(batch) ==
    IF batch.insert # {} \/ batch.update # {} THEN prTable \cup batch.insert
    ELSE prTable

\* variant: without deep collection (line 508) the source data are the
\* records to insert and to update
EnrichedShallow(batch) ==
    SetToSeq((batch.insert \cup batch.update) \cap TableAfter(batch))

\* lines 517-527: with deep_collection the source data are all fetched pull
\* requests; enrich_data_primary_keys keeps those that have a row
Enriched(batch) == SetToSeq(batch.all \cap TableAfter(batch))

\* lines 415-418: the completion signals after the call
SignalsAfter(batch) ==
    IF IncrementOutcome(batch) = "empty"
    THEN Append(signals, "pull_requests") ELSE signals

\* lines 525-527: self.pk_source_prs after the call
AccumulatorAfter(batch) ==
    IF IncrementOutcome(batch) = "empty" THEN self_pk_source_prs
    ELSE self_pk_source_prs \o Enriched(batch)

\* line 538 with stagger=True: paginate_endpoint calls the insertion method
\* with the records accumulated since the last such call
StaggerInsert ==
    /\ ppc = "paginate"
    /\ \E upto \in (consumed + 1)..NumRemotePRs :
       \E batch \in Batches((consumed + 1)..upto) :
          /\ IF IncrementOutcome(batch) = "NameError"
             THEN /\ FetchRaises("NameError")
                  /\ UNCHANGED <<prTable, self_pk_source_prs, signals,
                                 consumed>>
             ELSE /\ prTable' = TableAfter(batch)
                  /\ signals' = SignalsAfter(batch)
                  /\ self_pk_source_prs' = AccumulatorAfter(batch)
                  /\ consumed' = upto
                  /\ UNCHANGED <<ppc, pexc, failed>>
    /\ UNCHANGED <<runs, pk_source_prs, source_prs, invoked, fvars, rvars, nvars, cvars, dvars, kvars, evars, qvars>>

\* line 538: paginate_endpoint raises
PaginateRaises ==
    /\ ppc = "paginate"
    /\ \E exception \in RaisedExceptions : FetchRaises(exception)
    /\ UNCHANGED <<runs, prTable, self_pk_source_prs, pk_source_prs,
                   consumed, source_prs, invoked, signals, fvars, rvars, nvars, cvars, dvars, kvars, evars, qvars>>

\* lines 538-543: paginate_endpoint returns the records not yet handed over
\* (none when the repository has no pull requests, or no more)
PaginateReturns ==
    /\ ppc = "paginate"
    /\ \E upto \in consumed..NumRemotePRs :
       \E batch \in Batches((consumed + 1)..upto) :
          source_prs' = batch
    /\ ppc' = "final_insert"
    /\ UNCHANGED <<runs, prTable, self_pk_source_prs, pk_source_prs,
                   consumed, invoked, failed, signals, pexc, fvars, rvars, nvars, cvars, dvars, kvars, evars, qvars>>

\* lines 551-559: the last call of the insertion method, then the accumulator
\* is handed to the caller and reset
FinalInsert ==
    /\ ppc = "final_insert"
    /\ IF IncrementOutcome(source_prs) = "NameError"
       THEN /\ FetchRaises("NameError")
            /\ UNCHANGED <<prTable, self_pk_source_prs, signals,
                           pk_source_prs>>
       ELSE /\ prTable' = TableAfter(source_prs)
            /\ signals' = SignalsAfter(source_prs)
            /\ pk_source_prs' = AccumulatorAfter(source_prs)
            /\ self_pk_source_prs' = << >>
            /\ ppc' = "after_fetch"
            /\ UNCHANGED <<pexc, failed>>
    /\ source_prs' = NoBatch
    /\ UNCHANGED <<runs, consumed, invoked, fvars, rvars, nvars, cvars, dvars, kvars, evars, qvars>>

\* line 588: if pk_source_prs
SubModelsGuard ==
    /\ ppc = "after_fetch"
    /\ ppc' = IF pk_source_prs # << >> THEN "comments" ELSE "signal"
    /\ UNCHANGED <<runs, prTable, self_pk_source_prs, pk_source_prs,
                   consumed, source_prs, invoked, failed, signals, pexc,
                   fvars, rvars, nvars, cvars, dvars, kvars, evars, qvars>>

\* the try block entered after the one of `stage`
NextStage(stage) ==
    IF stage = "comments" THEN "events"
    ELSE IF stage = "events" THEN "reviews"
    ELSE IF stage = "reviews" THEN "nested"
    ELSE "signal"

\* variant: the next sub-model is called after the try statement, so an
\* exception skips the sub-models that follow
AfterSubModelSkipping(stage, raised) ==
    IF raised THEN "signal" ELSE NextStage(stage)

\* lines 589-625: each following sub-model is called in the finally clause of
\* the try statement of the one before, so it runs whether that one raised
\* or not
AfterSubModel(stage, raised) == NextStage(stage)

\* lines 589-625: one sub-model is called with pk_source_prs; it returns or
\* raises; an exception its handler does not catch stays pending while the
\* finally clauses run and leaves pull_requests_model after the last of them
SubModel(stage) ==
    \E outcome \in {"ok"} \cup RaisedExceptions :
        LET raised == outcome # "ok"
            pending == IF ~raised \/ ExceptException(outcome) THEN pexc
                       ELSE outcome
            next == AfterSubModel(stage, raised)
        IN /\ invoked' = Append(invoked, stage)
           /\ failed' = IF raised THEN failed \cup {stage} ELSE failed
           /\ pexc' = pending
           /\ ppc' = IF next = "signal" /\ pending # NoExc THEN "raised"
                     ELSE next
           /\ UNCHANGED <<runs, prTable, self_pk_source_prs, pk_source_prs,
                          consumed, source_prs, signals, fvars, rvars, nvars, cvars, dvars, kvars, evars, qvars>>

\* lines 589-596
CommentsModel ==
    /\ ppc = "comments"
    /\ SubModel("comments")

\* lines 598-605
EventsModel ==
    /\ ppc = "events"
    /\ SubModel("events")

\* lines 607-614
ReviewsModel ==
    /\ ppc = "reviews"
    /\ SubModel("reviews")

\* lines 616-625
NestedDataModel ==
    /\ ppc = "nested"
    /\ SubModel("nested")

\* line 627: register_task_completion(..., 'pull_requests'), then the
\* invocation returns
CompletionSignal ==
    /\ ppc = "signal"
    /\ signals' = Append(signals, "pull_requests")
    /\ ppc' = "idle"
    /\ UNCHANGED <<runs, prTable, self_pk_source_prs, pk_source_prs,
                   consumed, source_prs, invoked, failed, pexc, fvars, rvars, nvars, cvars, dvars, kvars, evars, qvars>>

NextPRs ==
    \/ PRsStart
    \/ StaggerInsert
    \/ PaginateRaises
    \/ PaginateReturns
    \/ FinalInsert
    \/ SubModelsGuard
    \/ CommentsModel
    \/ EventsModel
    \/ ReviewsModel
    \/ NestedDataModel
    \/ CompletionSignal

Init ==
    FilesIdle /\ PRsIdle /\ ReconIdle /\ NestedIdle /\ CommentsIdle /\ NestedDataIdle
    /\ CommitsIdle /\ EventsIdle /\ RepoIdle

SpecPRs == Init /\ [][NextPRs]_vars

NextFiles ==
    \/ FilesNextPR
    \/ FilesLoopEnd
    \/ PostConnectionError
    \/ RespText
    \/ RespErrors
    \/ RespErrorsNoType
    \/ RespData
    \/ RespMessage
    \/ RespNoMessage
    \/ PaginateReturn

SpecFiles == Init /\ [][NextFiles]_vars

(***************************************************************************)
(* Properties of graphql_paginate and of the fetch loop (SpecFiles).       *)
(***************************************************************************)
RECURSIVE PagesEdges(_, _)
\* the edges of pages 1..n of pull request pr, in the order they are served
PagesEdges(pr, n) ==
    IF n = 0 THEN << >> ELSE PagesEdges(pr, n - 1) \o Edges(pr, n)

\* a graphql_paginate call is running or about to return
Running == fpc \in {"for_attempt", "return"}

\* requests of the running call made for page p
ReqsOfPage(p) == {i \in DOMAIN reqLog : reqLog[i].page = p}

\* kinds of response the running call has received
Kinds == {reqLog[i].kind : i \in DOMAIN reqLog}

\* number of times edge e occurs in sequence q
Occurrences(q, e) == Cardinality({i \in DOMAIN q : q[i] = e})

\* exceptions raised while one response is handled (lines 119-164)
RequestExceptions == {"ConnectionError", "TypeError", "AttributeError",
                      "KeyError"}

\* C3: when every request is answered with a page, and the source reports
\* hasPreviousPage = true for its first k pages and false for page k+1
\* (remotePages = k+1), the call never issues more than k+1 requests, is still
\* in its loop while it has issued fewer, and returns after exactly k+1, the
\* last of which reported false.
C3_RequestsEqualPages ==
    (Running /\ Kinds \subseteq {"data"}) =>
        /\ Len(reqLog) <= remotePages
        /\ fpc = "for_attempt" => Len(reqLog) < remotePages
        /\ fpc = "return" =>
              /\ Len(reqLog) = remotePages
              /\ ~page_info.hasPreviousPage
              /\ page_info.startCursor = remotePages

\* the responses true, true, false: three requests, then the call returns
C3_Witness ==
    /\ fpc = "return"
    /\ Kinds = {"data"}
    /\ remotePages = 3
    /\ Len(reqLog) = 3

\* the source answers the call only with pages and rate-limit signals, and
\* every rate-limit signal leaves an attempt for its page
OnlyRateLimited ==
    /\ Kinds \subseteq {"data", "RATE_LIMITED"}
    /\ \A p \in 1..page_count :
          Cardinality({i \in ReqsOfPage(p) : reqLog[i].kind = "RATE_LIMITED"})
              < NumAttempts

\* C4: a call whose page requests were rate limited and then succeeded returns
\* the sequence a call without rate limiting returns (the edges of all pages
\* of the source, in order), every edge exactly once.
C4_RateLimitedThenSuccess ==
    (fpc = "return" /\ OnlyRateLimited) =>
        /\ tuples = PagesEdges(prIndex, remotePages)
        /\ \A p \in 1..remotePages :
              \A k \in DOMAIN Edges(prIndex, p) :
                  Occurrences(tuples, Edges(prIndex, p)[k]) = 1

\* a rate-limit signal on the second page of three, then success
C4_Witness ==
    /\ fpc = "return"
    /\ OnlyRateLimited
    /\ remotePages = 3
    /\ \E i \in DOMAIN reqLog :
          reqLog[i].kind = "RATE_LIMITED" /\ reqLog[i].page = 2

\* C5: rate-limit and abuse-detection signals do not consume the attempt
\* budget: a page is given up only if one of its responses was something else.
C5_RateLimitKeepsBudget ==
    (fpc = "return" /\ StopReason = "abandoned") =>
        \E i \in ReqsOfPage(page_count) :
            reqLog[i].kind \notin {"RATE_LIMITED", AbuseMessage}

\* C6: no page gets more than 3 requests, whatever the responses, and a call
\* issues at most 3 requests per page it visits.
C6_AtMostThreeRequestsPerPage ==
    Running =>
        /\ attempt <= NumAttempts
        /\ \A p \in 1..page_count : Cardinality(ReqsOfPage(p)) <= NumAttempts
        /\ Len(reqLog) <= NumAttempts * page_count

\* a page with three requests answered by a rate-limit signal, an error and
\* 'Bad credentials'
C6_Witness ==
    /\ fpc = "return"
    /\ Cardinality(ReqsOfPage(page_count)) = NumAttempts
    /\ {reqLog[i].kind : i \in ReqsOfPage(page_count)} =
           {"RATE_LIMITED", "OTHER", "Bad credentials"}

\* C7: when a page's attempts are used up, no exception is raised: the call
\* returns the edges of the pages fetched before, the exceptions that leave
\* the model are those of handling one response, and after the call the loop
\* of pull_request_files_model stands at the next pull request, ready to
\* query it.
C7_ExhaustedPageReturnsPartial ==
    /\ (fpc = "return" /\ StopReason = "abandoned") =>
          /\ fexc = NoExc
          /\ tuples = PagesEdges(prIndex, page_count - 1)
    /\ fpc = "raised" => fexc \in RequestExceptions
    /\ \A i \in DOMAIN callLog :
          (callLog[i].stop = "abandoned" /\ i = Len(callLog)
             /\ fpc = "for_pr" /\ i < NumPRs) =>
              /\ fexc = NoExc
              /\ prIndex = i + 1
              /\ ENABLED FilesNextPR

\* the second page of the first pull request was given up, its first page was
\* returned, and the files of the second pull request are being queried
C7_Witness ==
    /\ Len(callLog) = 1
    /\ callLog[1].stop = "abandoned"
    /\ callLog[1].result = PagesEdges(1, 1)
    /\ prIndex = 2
    /\ Len(reqLog) >= 1

\* C8: a not-found signal is the last request of its call: the call returns,
\* without an exception, the edges of the pages fetched before it.
C8_NotFoundStops ==
    \A i \in DOMAIN reqLog :
        reqLog[i].kind \in NotFoundKinds =>
            /\ i = Len(reqLog)
            /\ fpc = "return"
            /\ fexc = NoExc
            /\ tuples = PagesEdges(prIndex, page_count - 1)

\* 'Not Found' on the second page: the first page is returned
C8_Witness ==
    /\ fpc = "return"
    /\ page_count = 2
    /\ reqLog[Len(reqLog)].kind = "Not Found"
    /\ tuples = PagesEdges(prIndex, 1)

\* C9: a call whose last response was 'Bad credentials' does not end in the
\* plain return of the accumulated list, which is how a call ends that gave
\* up a page after transient failures; and no request that follows a 'Bad
\* credentials' response carries the credential that was refused.
C9_BadCredentialsFatal ==
    \A i \in DOMAIN reqLog :
        reqLog[i].kind = "Bad credentials" =>
            /\ i = Len(reqLog) => fpc # "return"
            /\ \A j \in (i + 1)..Len(reqLog) : reqLog[j].cred # reqLog[i].cred

\* C10: no connection error and no body that is not JSON makes an exception
\* leave graphql_paginate.
C10_TransportFailuresContained ==
    fexc \notin {"ConnectionError", "TypeError", "AttributeError"}

(***************************************************************************)
(* Properties of pull_requests_model (SpecPRs).                            *)
(***************************************************************************)
\* lines 590, 599, 608, 617: the order in which the sub-models are called
StageOrder == << "comments", "events", "reviews", "nested" >>

\* the invocation has left the try statements of lines 589-625
PastSubModels == ppc = "signal" \/ (ppc = "idle" /\ runs > 0)

\* C1: the sub-models are invoked in the order comments, events, reviews,
\* nested data, each at most once, and when the fetch yielded a non-empty
\* list every one of them has been invoked once the try statements are left,
\* whichever of them raised.
C1_SubModelsAllRun ==
    /\ invoked = SubSeq(StageOrder, 1, Len(invoked))
    /\ \A k \in DOMAIN StageOrder : ppc = StageOrder[k] => Len(invoked) = k - 1
    /\ (PastSubModels /\ pk_source_prs # << >>) => invoked = StageOrder

\* comments and reviews raised; events and nested data ran nevertheless
C1_Witness ==
    /\ ppc = "idle"
    /\ pk_source_prs # << >>
    /\ failed = {"comments", "reviews"}
    /\ invoked = StageOrder

\* C2: no exception of the fetch or of a sub-model leaves
\* pull_requests_model: no exception is pending or has propagated, and a
\* running invocation can always take its next step, up to its return.
C2_NoExceptionPropagates ==
    /\ pexc = NoExc
    /\ ppc # "raised"
    /\ ppc # "idle" => ENABLED NextPRs

\* the fetch raised and the invocation returned after its completion signal
C2_Witness ==
    /\ ppc = "idle"
    /\ "fetch" \in failed
    /\ signals = << "pull_requests" >>

(***************************************************************************)
(* pull_request_files_model, lines 240-321: the fetched rows are compared  *)
(* with the rows of the pull_request_files table, then written.            *)
(***************************************************************************)
\* rows the fetch loop can hand over, and rows the table can hold at the start
MaxFetched == 2
MaxStored == 2
\* the errors of a write loop are counted up to this number
MaxWriteErrors == 2

\* values of the columns pull_request_id, pr_file_path, pr_file_additions
PullRequestIds == {1, 2}
FilePaths == {1, 2}
Additions == {1, 2}

\* lines 228-236: the rows built by the fetch loop (deletions as in Edges)
PossibleRows ==
    {FileRow(id, [node |-> [path |-> p, additions |-> a, deletions |-> 0]]) :
        id \in PullRequestIds, p \in FilePaths, a \in Additions}

\* line 264: dupe_columns = ['pull_request_id', 'pr_file_path']
DupeColumns(row) == << row.pull_request_id, row.pr_file_path >>

\* line 265: update_columns = ['pr_file_additions', 'pr_file_deletions']
UpdateColumns(row) == << row.pr_file_additions, row.pr_file_deletions >>

\* no two rows of the sequence have the same natural key
KeyUnique(rows) ==
    \A i, j \in DOMAIN rows :
        DupeColumns(rows[i]) = DupeColumns(rows[j]) => i = j

RECURSIVE SeqOfRows(_)
\* the rows of a set, as the table returns them
SeqOfRows(S) ==
    IF S = {} THEN << >>
    ELSE LET r == CHOOSE x \in S : TRUE IN << r >> \o SeqOfRows(S \ {r})

\* the tables a run can start from: at most MaxStored rows, one per key
StoredTables ==
    {SeqOfRows(S) : S \in {T \in SUBSET PossibleRows :
        /\ Cardinality(T) <= MaxStored
        /\ \A x, y \in T : DupeColumns(x) = DupeColumns(y) => x = y}}

\* what the fetch loop can hand over; a key can occur twice when the pages
\* of the remote overlap
FetchedRows ==
    UNION {[1..n -> PossibleRows] : n \in 0..MaxFetched}

\* lexicographic order of the values of the merge columns
LexLess(a, b) == a[1] < b[1] \/ (a[1] = b[1] /\ a[2] < b[2])

RECURSIVE SortOn(_)
\* DataFrame.merge(how='outer') returns its rows in the lexicographic order of
\* the `on` columns; rows with equal values keep their order.  The argument
\* is a sequence of [on, row] records.
SortOn(s) ==
    IF s = << >> THEN << >>
    ELSE LET rest == SortOn(Tail(s))
             before == SelectSeq(rest, LAMBDA x : LexLess(x.on, Head(s).on))
             after == SelectSeq(rest, LAMBDA x : ~LexLess(x.on, Head(s).on))
         IN before \o << Head(s) >> \o after

RowsOf(s) == [i \in DOMAIN s |-> s[i].row]

\* variant: a fetched row is looked up in the table with all its columns
NeedInsertionWholeRow(rows, table) ==
    SelectSeq(rows, LAMBDA r : \A i \in DOMAIN table : table[i] # r)

\* lines 267-269: the outer merge on dupe_columns, then the rows marked
\* left_only: the fetched rows whose key no row of table_values has
NeedInsertion(rows, table) ==
    LET leftOnly == SelectSeq(rows, LAMBDA r :
                        \A i \in DOMAIN table :
                            DupeColumns(table[i]) # DupeColumns(r))
    IN RowsOf(SortOn([i \in DOMAIN leftOnly |->
                        [on |-> DupeColumns(leftOnly[i]), row |-> leftOnly[i]]]))

RECURSIVE Repeat(_, _)
Repeat(r, n) == IF n = 0 THEN << >> ELSE << r >> \o Repeat(r, n - 1)

RECURSIVE InnerMerge(_, _)
\* lines 271-272: the inner merge on dupe_columns, [table_columns]: every
\* fetched row once for each row of table_values that has its key
InnerMerge(rows, table) ==
    IF rows = << >> THEN << >>
    ELSE LET r == Head(rows)
             n == Cardinality({i \in DOMAIN table :
                                  DupeColumns(table[i]) = DupeColumns(r)})
         IN Repeat(r, n) \o InnerMerge(Tail(rows), table)

\* variant: the key is not looked up before the update columns are compared
NeedUpdatesNoKey(rows, table) ==
    SelectSeq(rows, LAMBDA r :
        \A i \in DOMAIN table : UpdateColumns(table[i]) # UpdateColumns(r))

\* lines 271-274: the result of the inner merge is merged again with
\* table_values, on update_columns, and the rows marked left_only are kept:
\* those whose (additions, deletions) no row of table_values has
NeedUpdates(rows, table) ==
    LET matched == InnerMerge(rows, table)
        leftOnly == SelectSeq(matched, LAMBDA r :
                        \A i \in DOMAIN table :
                            UpdateColumns(table[i]) # UpdateColumns(r))
    IN RowsOf(SortOn([i \in DOMAIN leftOnly |->
                        [on |-> UpdateColumns(leftOnly[i]), row |-> leftOnly[i]]]))

\* variant: both uniqueness columns are compared
WhereClauseBothColumns(row, u) ==
    /\ row.pull_request_id = u.pull_request_id
    /\ row.pr_file_path = u.pr_file_path

\* lines 292-297: where(c.pull_request_id == bindparam(...) and
\* c.pr_file_path == bindparam(...)).  Python's `and` takes the truth value of
\* its left operand, and that of a comparison of a column with a bind
\* parameter is False, so the expression is its left operand: the rows are
\* matched on pull_request_id alone.
WhereClause(row, u) == row.pull_request_id = u.pull_request_id

\* lines 298-301: one UPDATE sets the two update columns of the matched rows
ExecuteUpdate(table, u) ==
    [i \in DOMAIN table |->
        IF WhereClause(table[i], u)
        THEN [table[i] EXCEPT !.pr_file_additions = u.pr_file_additions,
                              !.pr_file_deletions = u.pr_file_deletions]
        ELSE table[i]]

RECURSIVE ExecuteUpdates(_, _)
\* lines 291-302: execute() with a list runs the statement once per record
ExecuteUpdates(table, updates) ==
    IF updates = << >> THEN table
    ELSE ExecuteUpdates(ExecuteUpdate(table, Head(updates)), Tail(updates))

\* variant: the table is not read, every fetched row is compared with nothing
ReadTableStale(table) == << >>

\* lines 241-250: the rows of pull_request_files of this repository
ReadTable(table) == table

\* the locals of the fetch loop and of graphql_paginate
pagvars == <<remotePages, prIndex, before_parameters, has_previous_page,
             tuples, page_count, num_attempts, attempt, range_stop, success,
             page_info, data, cred, reqLog, callLog, fexc, faults>>

\* the first run has fetched the rows of the remote dataset (line 240) and
\* the table holds what earlier collections left
ReconStart ==
    /\ fpc = "fetched"
    /\ remotePages = 0
    /\ prIndex = NumPRs + 1
    /\ before_parameters = EmptyBefore
    /\ has_previous_page = TRUE
    /\ tuples = << >>
    /\ page_count = 0
    /\ num_attempts = NumAttempts
    /\ attempt = 0
    /\ range_stop = 0
    /\ success = FALSE
    /\ page_info = NoPage
    /\ data = << >>
    /\ cred = 1
    /\ reqLog = << >>
    /\ callLog = << >>
    /\ fexc = NoExc
    /\ faults = 0
    /\ remote_rows \in FetchedRows
    /\ pr_file_rows = remote_rows
    /\ pull_request_files \in StoredTables
    /\ table_values = << >>
    /\ need_insertion = << >>
    /\ need_updates = << >>
    /\ fruns = 1
    /\ after_complete = FALSE
    /\ killed_at = "none"
    /\ fsignals = 0
    /\ write_errors = NoWriteErrors

\* variant: the signal is registered twice
RegisterTwice(n) == n + 2

\* lines 257, 321: register_task_completion(..., 'pull_request_files')
RegisterTaskCompletion(n) == n + 1

\* variant: the test of line 253 is left out
HasRowsAlways(rows) == TRUE

\* line 253: len(pr_file_rows) > 0
HasRows(rows) == Len(rows) > 0

\* lines 253-258: nothing was fetched: the completion signal, then return
NoRows ==
    /\ fpc = "fetched"
    /\ ~HasRows(pr_file_rows)
    /\ table_values' = ReadTable(pull_request_files)
    /\ fsignals' = RegisterTaskCompletion(fsignals)
    /\ fpc' = "done"
    /\ UNCHANGED <<pr_file_rows, pagvars, pvars, nvars, cvars, dvars, kvars, evars, qvars, write_errors, remote_rows,
                   pull_request_files, need_insertion, need_updates, fruns,
                   after_complete, killed_at>>

\* lines 240-280: the table is read and the fetched rows are classified
Classify ==
    /\ fpc = "fetched"
    /\ HasRows(pr_file_rows)
    /\ table_values' = ReadTable(pull_request_files)
    /\ need_insertion' = NeedInsertion(pr_file_rows, table_values')
    /\ need_updates' = NeedUpdates(pr_file_rows, table_values')
    /\ fpc' = "classified"
    /\ UNCHANGED <<pr_file_rows, pagvars, pvars, nvars, cvars, dvars, kvars, evars, qvars, write_errors, remote_rows,
                   pull_request_files, fruns, after_complete, killed_at,
                   fsignals>>

\* lines 287-306: the update records are written, if there are any
UpdateRows ==
    /\ fpc = "classified"
    /\ pull_request_files' = ExecuteUpdates(pull_request_files, need_updates)
    /\ fpc' = "updated"
    /\ UNCHANGED <<pr_file_rows, pagvars, pvars, nvars, cvars, dvars, kvars, evars, qvars, write_errors, remote_rows, table_values,
                   need_insertion, need_updates, fruns, after_complete,
                   killed_at, fsignals>>

\* lines 308-319: the insert records are written, if there are any
InsertRows ==
    /\ fpc = "updated"
    /\ pull_request_files' = pull_request_files \o need_insertion
    /\ fpc' = "inserted"
    /\ UNCHANGED <<pr_file_rows, pagvars, pvars, nvars, cvars, dvars, kvars, evars, qvars, write_errors, remote_rows, table_values,
                   need_insertion, need_updates, fruns, after_complete,
                   killed_at, fsignals>>

\* line 321: register_task_completion(..., 'pull_request_files')
FilesSignal ==
    /\ fpc = "inserted"
    /\ fsignals' = RegisterTaskCompletion(fsignals)
    /\ fpc' = "done"
    /\ UNCHANGED <<pr_file_rows, pagvars, pvars, nvars, cvars, dvars, kvars, evars, qvars, write_errors, remote_rows,
                   pull_request_files, table_values, need_insertion,
                   need_updates, fruns, after_complete, killed_at>>

\* the worker process is killed during the run: its locals are lost, the
\* table keeps what was written
Kill ==
    /\ fpc \in {"fetched", "classified", "updated", "inserted"}
    /\ killed_at' = fpc
    /\ fpc' = "killed"
    /\ pr_file_rows' = << >>
    /\ table_values' = << >>
    /\ need_insertion' = << >>
    /\ need_updates' = << >>
    /\ UNCHANGED <<pagvars, pvars, nvars, cvars, dvars, kvars, evars, qvars, write_errors, remote_rows, pull_request_files, fruns,
                   after_complete, fsignals>>

\* lines 187-237: the model is run again from the start and fetches the rows
\* of the same remote dataset
Rerun ==
    /\ fpc \in {"done", "killed"}
    /\ fruns < MaxRuns
    /\ fruns' = fruns + 1
    /\ after_complete' = (fpc = "done")
    /\ pr_file_rows' = remote_rows
    /\ table_values' = << >>
    /\ need_insertion' = << >>
    /\ need_updates' = << >>
    /\ killed_at' = IF fpc = "killed" THEN killed_at ELSE "none"
    /\ fpc' = "fetched"
    /\ UNCHANGED <<pagvars, pvars, nvars, cvars, dvars, kvars, evars, qvars, write_errors, remote_rows, pull_request_files,
                   fsignals>>

\* variant: a failed write ends its loop
LeaveLoopOnError(stage) == IF stage = "classified" THEN "updated" ELSE "inserted"

\* lines 289, 310: `while not success` after a failed write: the loop of the
\* stage is entered again
AfterWriteError(stage) == stage

\* lines 304-306, 317-319: the error is logged; the count stops at
\* MaxWriteErrors, the loop does not
LogWriteError(n) == IF n < MaxWriteErrors THEN n + 1 ELSE n

\* lines 289-306: db.execute of the update raises; the handler logs and the
\* loop sleeps five seconds before the next attempt
UpdateFails ==
    /\ fpc = "classified"
    /\ Len(need_updates) > 0
    /\ write_errors' = [write_errors EXCEPT !.update = LogWriteError(@)]
    /\ fpc' = AfterWriteError(fpc)
    /\ UNCHANGED <<pr_file_rows, pagvars, pvars, nvars, cvars, dvars, kvars, evars, qvars, remote_rows,
                   pull_request_files, table_values, need_insertion,
                   need_updates, fruns, after_complete, killed_at, fsignals>>

\* lines 310-319: db.execute of the insert raises; logged, slept, tried again
InsertFails ==
    /\ fpc = "updated"
    /\ Len(need_insertion) > 0
    /\ write_errors' = [write_errors EXCEPT !.insert = LogWriteError(@)]
    /\ fpc' = AfterWriteError(fpc)
    /\ UNCHANGED <<pr_file_rows, pagvars, pvars, nvars, cvars, dvars, kvars, evars, qvars, remote_rows,
                   pull_request_files, table_values, need_insertion,
                   need_updates, fruns, after_complete, killed_at, fsignals>>

NextRecon ==
    \/ NoRows
    \/ Classify
    \/ UpdateRows
    \/ InsertRows
    \/ FilesSignal
    \/ Kill
    \/ Rerun

InitRecon ==
    ReconStart /\ PRsIdle /\ NestedIdle /\ CommentsIdle /\ NestedDataIdle
    /\ CommitsIdle /\ EventsIdle /\ RepoIdle

SpecRecon == InitRecon /\ [][NextRecon]_vars

\* one run of the model against a store whose writes can fail
NextWrites ==
    \/ NoRows
    \/ Classify
    \/ UpdateRows
    \/ UpdateFails
    \/ InsertRows
    \/ InsertFails
    \/ FilesSignal

\* the worker keeps executing its code (the steps that involve no write are
\* never blocked), and the store eventually accepts each write that keeps
\* being submitted
WritesFairness ==
    /\ WF_vars(NoRows \/ Classify \/ FilesSignal)
    /\ WF_vars(UpdateRows)
    /\ WF_vars(InsertRows)

\* the run starts as a run of SpecRecon does, with the files of one pull
\* request fetched and stored
InitWrites ==
    /\ InitRecon
    /\ \A i, j \in DOMAIN remote_rows :
           remote_rows[i].pull_request_id = remote_rows[j].pull_request_id
    /\ \A i \in DOMAIN remote_rows : \A j \in DOMAIN pull_request_files :
           remote_rows[i].pull_request_id = pull_request_files[j].pull_request_id
    /\ \A i, j \in DOMAIN pull_request_files :
           pull_request_files[i].pull_request_id = pull_request_files[j].pull_request_id

SpecWrites == InitWrites /\ [][NextWrites]_vars /\ WritesFairness

(***************************************************************************)
(* Properties of the reconciliation of pull_request_files_model            *)
(* (SpecRecon).                                                            *)
(***************************************************************************)
InSeq(r, rows) == \E i \in DOMAIN rows : rows[i] = r

\* the fetched rows have been classified by this run
Classified == fpc \in {"classified", "updated", "inserted"}

\* a row of table_values has the natural key of r
KeyInTable(r) ==
    \E i \in DOMAIN table_values : DupeColumns(table_values[i]) = DupeColumns(r)

\* C14: no fetched row is both in need_insertion and in need_updates, and the
\* two hold fetched rows only; a fetched row in neither is the unchanged one,
\* so every fetched row is in exactly one of the three partitions.
C14_PartitionsDisjoint ==
    Classified =>
        /\ \A i \in DOMAIN pr_file_rows :
              ~(InSeq(pr_file_rows[i], need_insertion)
                  /\ InSeq(pr_file_rows[i], need_updates))
        /\ \A i \in DOMAIN need_insertion : InSeq(need_insertion[i], pr_file_rows)
        /\ \A i \in DOMAIN need_updates : InSeq(need_updates[i], pr_file_rows)

\* one fetched row is to be inserted, the other one to be updated
C14_Witness ==
    /\ fpc = "classified"
    /\ Len(pr_file_rows) = 2
    /\ Len(need_insertion) = 1
    /\ Len(need_updates) = 1

\* C15: a fetched row is classified for insertion if and only if no row read
\* from the table has its natural key (pull_request_id, pr_file_path).
C15_InsertIffKeyAbsent ==
    Classified =>
        \A i \in DOMAIN pr_file_rows :
            InSeq(pr_file_rows[i], need_insertion) <=> ~KeyInTable(pr_file_rows[i])

\* a fetched row whose key is stored with other values is not inserted, while
\* the other fetched row, whose key is not stored, is
C15_Witness ==
    /\ fpc = "classified"
    /\ Len(need_insertion) = 1
    /\ \E i \in DOMAIN pr_file_rows :
          /\ KeyInTable(pr_file_rows[i])
          /\ ~InSeq(pr_file_rows[i], table_values)
          /\ ~InSeq(pr_file_rows[i], need_insertion)

\* C16: a fetched row is classified for update if and only if a row read from
\* the table has its natural key and other values in the update columns
\* (pr_file_additions, pr_file_deletions).
C16_UpdateIffSameKeyRowDiffers ==
    Classified =>
        \A i \in DOMAIN pr_file_rows :
            InSeq(pr_file_rows[i], need_updates) <=>
                \E j \in DOMAIN table_values :
                    /\ DupeColumns(table_values[j]) = DupeColumns(pr_file_rows[i])
                    /\ UpdateColumns(table_values[j]) # UpdateColumns(pr_file_rows[i])

\* C17: the update step changes only rows whose pull_request_id and
\* pr_file_path are those of an update record, and in them only the update
\* columns.
C17_UpdateTouchesMatchedRowsOnly ==
    fpc = "updated" =>
        /\ Len(pull_request_files) = Len(table_values)
        /\ \A i \in DOMAIN pull_request_files :
              /\ DupeColumns(pull_request_files[i]) = DupeColumns(table_values[i])
              /\ pull_request_files[i] # table_values[i] =>
                    \E j \in DOMAIN need_updates :
                        DupeColumns(need_updates[j]) = DupeColumns(table_values[i])

\* C18: a run that follows a completed run on the same remote dataset (one
\* without repeated keys) has nothing to insert and nothing to update.
C18_SecondRunWritesNothing ==
    (after_complete /\ Classified /\ KeyUnique(remote_rows)) =>
        /\ need_insertion = << >>
        /\ need_updates = << >>

\* occurrences of the natural key of r in a sequence of rows
WithKey(rows, r) == {i \in DOMAIN rows : DupeColumns(rows[i]) = DupeColumns(r)}

\* C19: after a completed run, a natural key fetched twice has one row in the
\* table, with the values of its later occurrence.
C19_DuplicateKeyLaterWins ==
    fpc = "done" =>
        \A i, j \in DOMAIN pr_file_rows :
            (i < j /\ WithKey(pr_file_rows, pr_file_rows[j]) = {i, j}) =>
                \E k \in DOMAIN pull_request_files :
                    /\ WithKey(pull_request_files, pr_file_rows[j]) = {k}
                    /\ pull_request_files[k] = pr_file_rows[j]

StartCursorOf(i) ==
    DataResponse(prIndex, reqLog[i].before).pageInfo.startCursor

\* requests of the running call that fetched a page
Fetched == {i \in DOMAIN reqLog : reqLog[i].kind = "data"}

\* C12: the requests for the first page send the empty cursor, all requests
\* for one page send the same cursor, whatever the attempts before returned,
\* and the requests for the page after a fetched page send the startCursor
\* that page returned.
C12_CursorAdvancesOnSuccessOnly ==
    Running =>
        /\ \A i \in ReqsOfPage(1) : reqLog[i].before = EmptyBefore
        /\ \A i, j \in DOMAIN reqLog :
              reqLog[i].page = reqLog[j].page =>
                  reqLog[i].before = reqLog[j].before
        /\ \A i \in Fetched : \A j \in ReqsOfPage(reqLog[i].page + 1) :
              reqLog[j].before = FormatBefore(StartCursorOf(i))
        /\ fpc = "for_attempt" =>
              before_parameters =
                  IF Fetched = {} THEN EmptyBefore
                  ELSE FormatBefore(StartCursorOf(
                           CHOOSE i \in Fetched : \A j \in Fetched : j <= i))

\* the second page was fetched at its second attempt and the third page has
\* been requested
C12_Witness ==
    /\ Running
    /\ \E i, j \in ReqsOfPage(2) :
          /\ i < j
          /\ reqLog[i].kind # "data"
          /\ reqLog[j].kind = "data"
    /\ ReqsOfPage(3) # {}

\* C13: the sequence a call holds, and returns, is the concatenation in fetch
\* order of the edges of the pages it fetched: a prefix of what a run without
\* failures returns, with nothing of a page whose attempts failed.
C13_ResultIsFetchedPages ==
    Running =>
        /\ Cardinality(Fetched) <= remotePages
        /\ tuples = PagesEdges(prIndex, Cardinality(Fetched))
        /\ tuples = SubSeq(PagesEdges(prIndex, remotePages), 1, Len(tuples))
        /\ \A p \in 1..remotePages :
              (\A i \in ReqsOfPage(p) : reqLog[i].kind # "data") =>
                  \A k \in DOMAIN Edges(prIndex, p) :
                      Occurrences(tuples, Edges(prIndex, p)[k]) = 0

\* two pages were fetched and the attempts for the third all failed
C13_Witness ==
    /\ fpc = "return"
    /\ remotePages = 3
    /\ Cardinality(Fetched) = 2
    /\ Cardinality(ReqsOfPage(3)) = NumAttempts
    /\ Len(tuples) = 2

(***************************************************************************)
(* graphql_paginate, lines 61-184, called with data subjects that nest.    *)
(* The while loop of one data subject (lines 108-175, modelled in full in  *)
(* SpecFiles) is one step here.                                            *)
(***************************************************************************)
FieldNames == {"files", "commits"}

\* the items of a dict with one to w keys and values taken from V
ItemsOver(V, w) ==
    {s \in UNION {[1..n -> [key : FieldNames, nest : V]] : n \in 1..w} :
        \A i, j \in DOMAIN s : s[i].key = s[j].key => i = j}

\* values of a field without nested fields: None or the empty dict
LeafValues == {NoneValue, DictOf(<< >>)}

\* dicts of one or two fields that nest one level at most
OneLevel ==
    {DictOf(i) : i \in ItemsOver(LeafValues
                    \cup {DictOf(j) : j \in ItemsOver(LeafValues, 2)}, 2)}

\* the data_subjects arguments: the dicts of OneLevel, and the dicts of one
\* field that holds a dict of one field of OneLevel
DataSubjects ==
    OneLevel \cup {DictOf(i) : i \in ItemsOver(
                       {d \in OneLevel : Len(d.items) = 1}, 1)}

RECURSIVE AllItems(_)
\* lines 71-77: the keys all_items(dictionary) yields, in order: every key,
\* followed by the keys of its value when that is a dict
AllItems(d) ==
    IF d.items = << >> THEN << >>
    ELSE LET first == Head(d.items) IN
         << first.key >>
             \o (IF first.nest.none THEN << >> ELSE AllItems(first.nest))
             \o AllItems(DictOf(Tail(d.items)))

\* the keys of a dict
KeysOf(d) == {d.items[i].key : i \in DOMAIN d.items}

\* d[k]
Lookup(d, k) == (CHOOSE i \in DOMAIN d.items : d.items[i].key = k)

\* truth value of a value: None and the empty dict are false
Truthy(v) == ~v.none /\ v.items # << >>

\* a list as a return value
ListOf(items) == [none |-> FALSE, items |-> items]

NestedControl == {"idle", "enter", "while", "after", "returned", "raised"}

\* the outermost call: graphql_paginate(query, data_subjects)
NestedStart ==
    /\ npc = "enter"
    /\ root_subjects \in DataSubjects
    /\ data_subjects = root_subjects
    /\ subject = Unbound
    /\ nested_before = {}
    /\ outer_tuples = << >>
    /\ depth = 1
    /\ nresult = NoneValue
    /\ nexc = NoExc

\* an exception leaves the frame; no frame has a handler
NestedRaise(exception) ==
    /\ npc' = "raised"
    /\ nexc' = exception
    /\ UNCHANGED <<root_subjects, data_subjects, subject, nested_before,
                   outer_tuples, depth, nresult>>

\* lines 79-102: a frame is entered with a dict that has items; when
\* before_parameters is None or empty every key gets the empty cursor and
\* `subject` is left bound to the last key yielded; otherwise `subject` is
\* not bound in this frame; then the for loop takes the first item
NestedEnter ==
    /\ npc = "enter"
    /\ Truthy(data_subjects)
    /\ IF nested_before = {}
       THEN LET keys == AllItems(data_subjects) IN
            /\ nested_before' = {<< keys[i], "" >> : i \in DOMAIN keys}
            /\ subject' = keys[Len(keys)]
       ELSE UNCHANGED <<nested_before, subject>>
    /\ npc' = "while"
    /\ UNCHANGED <<root_subjects, data_subjects, outer_tuples, depth, nresult,
                   nexc, fvars, pvars, rvars, cvars, dvars, kvars, evars, qvars>>

\* line 102: data_subjects is None: None.items() raises
NestedNoneSubjects ==
    /\ npc = "enter"
    /\ data_subjects.none
    /\ NestedRaise("AttributeError")
    /\ UNCHANGED <<fvars, pvars, rvars, cvars, dvars, kvars, evars, qvars>>

\* line 102: data_subjects is the empty dict: the for loop has no iteration
\* and the frame returns None, which the caller adds to its tuples (line 183)
NestedEmptyDict ==
    /\ npc = "enter"
    /\ ~data_subjects.none
    /\ data_subjects.items = << >>
    /\ NestedRaise("TypeError")
    /\ UNCHANGED <<fvars, pvars, rvars, cvars, dvars, kvars, evars, qvars>>

\* lines 107-178: the while loop of the first item's field: it fetches pages,
\* or leaves at the first page; the field's cursor is set when a page was
\* fetched and the records are added to tuples
NestedPaginate ==
    /\ npc = "while"
    /\ \E fetched \in BOOLEAN :
          LET field == Head(data_subjects.items).key IN
          IF fetched
          THEN /\ outer_tuples' = Append(outer_tuples,
                                         [field |-> field, frame |-> depth])
               /\ nested_before' =
                      {b \in nested_before : b[1] # field}
                          \cup {<< field, "cursor" >>}
          ELSE UNCHANGED <<outer_tuples, nested_before>>
    /\ npc' = "after"
    /\ UNCHANGED <<root_subjects, data_subjects, subject, depth, nresult,
                   nexc, fvars, pvars, rvars, cvars, dvars, kvars, evars, qvars>>

\* lines 180-181: `if not nest: return tuples`, in the first iteration of the
\* for loop; the frames that wait at line 183 return their sums
NestedReturn ==
    /\ npc = "after"
    /\ ~Truthy(Head(data_subjects.items).nest)
    /\ nresult' = ListOf(outer_tuples)
    /\ npc' = "returned"
    /\ UNCHANGED <<root_subjects, data_subjects, subject, nested_before,
                   outer_tuples, depth, nexc, fvars, pvars, rvars, cvars, dvars, kvars, evars, qvars>>

\* lines 183-184: data_subjects[subject] cannot be evaluated: `subject` is
\* not bound in this frame, or is not a key of this frame's data_subjects
NestedRecurseRaises ==
    /\ npc = "after"
    /\ Truthy(Head(data_subjects.items).nest)
    /\ \/ /\ subject = Unbound
          /\ NestedRaise("UnboundLocalError")
       \/ /\ subject # Unbound
          /\ subject \notin KeysOf(data_subjects)
          /\ NestedRaise("KeyError")
    /\ UNCHANGED <<fvars, pvars, rvars, cvars, dvars, kvars, evars, qvars>>

\* lines 183-184: the recursive call, with data_subjects[subject] and the
\* before_parameters of this frame
NestedRecurse ==
    /\ npc = "after"
    /\ Truthy(Head(data_subjects.items).nest)
    /\ subject # Unbound
    /\ subject \in KeysOf(data_subjects)
    /\ data_subjects' = data_subjects.items[Lookup(data_subjects, subject)].nest
    /\ subject' = Unbound
    /\ depth' = depth + 1
    /\ npc' = "enter"
    /\ UNCHANGED <<root_subjects, nested_before, outer_tuples, nresult, nexc,
                   fvars, pvars, rvars, cvars, dvars, kvars, evars, qvars>>

NextNested ==
    \/ NestedEnter
    \/ NestedNoneSubjects
    \/ NestedEmptyDict
    \/ NestedPaginate
    \/ NestedReturn
    \/ NestedRecurseRaises
    \/ NestedRecurse

InitNested ==
    FilesIdle /\ PRsIdle /\ ReconIdle /\ NestedStart /\ CommentsIdle /\ NestedDataIdle
    /\ CommitsIdle /\ EventsIdle /\ RepoIdle

SpecNested == InitNested /\ [][NextNested]_vars

(***************************************************************************)
(* Properties of graphql_paginate with nested data subjects (SpecNested).  *)
(***************************************************************************)
\* the first field of the outermost call holds nested fields
HasNestedFields == Truthy(Head(root_subjects.items).nest)

\* C11: when a paginated field holds nested fields, no exception leaves
\* graphql_paginate, and the call returns the records of the outer field
\* followed by those of every nested field: the outer field was paginated
\* before any nested one, and every nested field was paginated.
C11_NestedFieldsPaginated ==
    (npc \in {"returned", "raised"} /\ HasNestedFields) =>
        /\ npc = "returned"
        /\ nexc = NoExc
        /\ LET first == Head(root_subjects.items)
               expected == << first.key >> \o AllItems(first.nest)
           IN /\ \A j \in DOMAIN nresult.items :
                     \E i \in DOMAIN expected :
                         nresult.items[j].field = expected[i]
              /\ \A j, k \in DOMAIN nresult.items :
                     j < k => nresult.items[j].frame < nresult.items[k].frame

(***************************************************************************)
(* Further properties of pull_requests_model (SpecPRs).                    *)
(***************************************************************************)
\* the invocation has returned
Returned == ppc = "idle" /\ runs > 0

\* C23: the last call of the insertion method, handed a batch in which the
\* actor of a pull request to insert is not resolved, does not fail: the fetch
\* is not failed by it and every pull request to insert gets its row.
C23_NullActorPassedThrough ==
    [][(ppc = "final_insert" /\ source_prs.insert \cap source_prs.nullActor # {})
          => /\ "fetch" \notin failed'
             /\ source_prs.insert \subseteq prTable']_vars

\* C25: an invocation emits the 'pull_requests' completion signal exactly
\* once, as its last action: none before line 627 is reached, one when the
\* invocation has returned.
C25_OneCompletionSignal ==
    /\ (ppc \notin {"idle", "raised"}) => signals = << >>
    /\ Returned => signals = << "pull_requests" >>

\* C26: when the fetch raised or yielded no pull request, no sub-model is
\* invoked and the invocation still ends with the completion signal.
C26_FailedFetchReportedComplete ==
    /\ ("fetch" \in failed \/ (ppc \in {"signal", "idle"} /\ pk_source_prs = << >>))
          => invoked = << >>
    /\ "fetch" \in failed => pk_source_prs = << >>
    /\ (Returned /\ pk_source_prs = << >>) =>
          /\ signals # << >>
          /\ signals[Len(signals)] = "pull_requests"

\* the fetch raised after a stagger insert had written rows; no sub-model ran
\* and the completion signal was emitted
C26_Witness ==
    /\ Returned
    /\ failed = {"fetch"}
    /\ prTable # {}
    /\ invoked = << >>
    /\ signals = << "pull_requests" >>

\* C27: self.pk_source_prs is empty when _get_pk_source_prs is called, so what
\* a call returns are records enriched during that call.
C27_AccumulatorEmptyAtCall ==
    /\ (ppc = "paginate" /\ consumed = 0) => self_pk_source_prs = << >>
    /\ ppc = "idle" => self_pk_source_prs = << >>

(***************************************************************************)
(* Properties of the write loops of pull_request_files_model (SpecWrites). *)
(***************************************************************************)
\* C21: a failed write is followed by another attempt however many errors
\* were logged; the update loop is left only by a step that wrote every
\* update record and the insert loop only by a step that wrote every insert
\* record; and, the store accepting each write in the end, the run reaches
\* line 321 and emits the 'pull_request_files' signal.
C21_WritesRetriedUntilAccepted ==
    /\ [][/\ (fpc = "classified" /\ fpc' # fpc) =>
                /\ fpc' = "updated"
                /\ pull_request_files' =
                       ExecuteUpdates(pull_request_files, need_updates)
                /\ write_errors' = write_errors
          /\ (fpc = "updated" /\ fpc' # fpc) =>
                /\ fpc' = "inserted"
                /\ pull_request_files' = pull_request_files \o need_insertion
                /\ write_errors' = write_errors
          /\ write_errors'.update >= write_errors.update
          /\ write_errors'.insert >= write_errors.insert]_vars
    /\ (fpc = "classified") ~> (fpc = "done" /\ fsignals = 1)

\* both writes failed MaxWriteErrors times or more, both were made in the end
\* and the signal was emitted
C21_Witness ==
    /\ fpc = "done"
    /\ write_errors.update = MaxWriteErrors
    /\ write_errors.insert = MaxWriteErrors
    /\ Len(need_updates) > 0
    /\ Len(need_insertion) > 0
    /\ \A i \in DOMAIN need_insertion : InSeq(need_insertion[i], pull_request_files)
    /\ fsignals = 1

(***************************************************************************)
(* pr_comments_insert of pull_request_comments_model (lines 655-755) and   *)
(* the review messages of pull_request_reviews_model (lines 1050-1158):    *)
(* the message rows are inserted, the fetched comments are merged with the  *)
(* message table and then with the table of their parents, and the         *)
(* reference rows are inserted.                                            *)
(***************************************************************************)
NumComments == 2

\* `id` of the comments the endpoint can return
CommentIds == 1..NumComments

\* `pull_request_url` of a comment, pr_url of a pull request
PrUrls == {1, 2}

\* `pull_request_review_id` of a comment, pr_review_src_id of a review
ReviewIds == {1, 2}

\* a comment of /pulls/comments; the last three fields are what the
\* enrichment attaches, Null until then
Comments ==
    [id : CommentIds, pull_request_url : PrUrls,
     pull_request_review_id : ReviewIds, user : {"login", "none"},
     msg_id : {Null}, pull_request_id : {Null}, pr_review_id : {Null}]

\* what paginate_endpoint hands over as 'insert': comments with distinct ids
CommentBatches ==
    {B \in SUBSET Comments : \A x, y \in B : x.id = y.id => x = y}

CommentModels == {"comments", "reviews"}

\* lines 662, 1051: enrich_cntrb_id leaves the contributor id of a comment
\* without a resolvable actor null
CntrbId(comment) == IF comment.user = "login" THEN comment.id ELSE Null

\* lines 680-682: `comment['cntrb_id'] if comment['cntrb_id'] else
\* is_nan(comment['cntrb_id'])`; is_nan is a name of the class body, which the
\* nested function does not see
BuildOutcome(model, batch) ==
    IF model = "comments" /\ \E c \in batch : CntrbId(c) = Null
    THEN "NameError" ELSE "ok"

\* lines 673-690, 1062-1078: platform_msg_id of the message rows to insert
MessageRows(model, batch) ==
    IF model = "comments" THEN {c.id : c \in batch}
    ELSE {c.id : c \in {x \in batch : x.user = "login"}}

\* bulk_insert with unique_columns: the rows whose key the table lacks are added
BulkInsert(table, rows) == table \cup rows

\* variant: records without a match are kept, with a null key
EnrichLeftJoin(records, keys, field, pk) ==
    {[r EXCEPT ![pk] = IF r[field] \in keys THEN r[field] ELSE Null] :
        r \in records}

\* enrich_data_primary_keys: the records are merged with the rows of the
\* table on field; a record that matches a row gets the primary key of the
\* row (identified here with the row's natural key), the others are dropped
EnrichDataPrimaryKeys(records, keys, field, pk) ==
    {[r EXCEPT ![pk] = r[field]] : r \in {x \in records : x[field] \in keys}}

\* lines 721-723, 1096-1099: the parent table, the merge field and the key
ParentKeys(model) ==
    IF model = "comments" THEN pull_requests_table
    ELSE pull_request_reviews_table

ParentField(model) ==
    IF model = "comments" THEN "pull_request_url" ELSE "pull_request_review_id"

ParentPk(model) ==
    IF model = "comments" THEN "pull_request_id" ELSE "pr_review_id"

\* lines 733-744, 1102-1147: one reference row for each enriched comment
RefRows(model, enriched) ==
    {[parent_id |-> c[ParentPk(model)], msg_id |-> c.msg_id,
      src_comment_id |-> c.id] : c \in enriched}

\* variant: the message insert is left out
StepAfterWithoutInsert(step) ==
    CASE step = "build" -> "enrich_messages"
      [] step = "message_insert" -> "enrich_messages"
      [] step = "enrich_messages" -> "enrich_parents"
      [] step = "enrich_parents" -> "ref_insert"
      [] OTHER -> "done"

\* the order of the statements of lines 673-755 and 1062-1158
StepAfter(step) ==
    CASE step = "build" -> "message_insert"
      [] step = "message_insert" -> "enrich_messages"
      [] step = "enrich_messages" -> "enrich_parents"
      [] step = "enrich_parents" -> "ref_insert"
      [] OTHER -> "done"

CommentsControl ==
    {"idle", "build", "message_insert", "enrich_messages", "enrich_parents",
     "ref_insert", "done", "raised"}

\* the function is entered with a batch, against tables that hold what
\* earlier calls and earlier collections left
CommentsStart ==
    /\ cpc = "build"
    /\ cmodel \in CommentModels
    /\ inc_pr_comments \in CommentBatches
    /\ message_table \in SUBSET CommentIds
    /\ pull_requests_table \in SUBSET PrUrls
    /\ pull_request_reviews_table \in SUBSET ReviewIds
    /\ cmodel = "comments" => pull_request_reviews_table = {}
    /\ cmodel = "reviews" => pull_requests_table = {}
    /\ c_pk_source_comments = {}
    /\ both_pk_source_comments = {}
    /\ cbound = {}
    /\ pr_message_ref_insert = {}
    /\ pull_request_message_ref_table = {}
    /\ pull_request_review_message_ref_table = {}
    /\ clog = << >>
    /\ cfailed = {}
    /\ cexc = NoExc

\* an exception leaves the function
CommentsRaise(exception) ==
    /\ cpc' = "raised"
    /\ cexc' = exception

\* lines 658-690, 1050-1078: the message rows are built
BuildRows ==
    /\ cpc = "build"
    /\ IF BuildOutcome(cmodel, inc_pr_comments) = "ok"
       THEN cpc' = StepAfter(cpc) /\ cexc' = cexc
       ELSE CommentsRaise(BuildOutcome(cmodel, inc_pr_comments))
    /\ UNCHANGED <<cmodel, inc_pr_comments, message_table, pull_requests_table,
                   pull_request_reviews_table, c_pk_source_comments,
                   both_pk_source_comments, cbound, pr_message_ref_insert,
                   pull_request_message_ref_table,
                   pull_request_review_message_ref_table, clog, cfailed,
                   fvars, pvars, rvars, nvars, dvars, kvars, evars, qvars>>

\* lines 692-694, 1080-1081: bulk_insert of the message rows
MessageInsert ==
    /\ cpc = "message_insert"
    /\ message_table' =
           BulkInsert(message_table, MessageRows(cmodel, inc_pr_comments))
    /\ clog' = Append(clog, cpc)
    /\ cpc' = StepAfter(cpc)
    /\ UNCHANGED <<cmodel, inc_pr_comments, pull_requests_table,
                   pull_request_reviews_table, c_pk_source_comments,
                   both_pk_source_comments, cbound, pr_message_ref_insert,
                   pull_request_message_ref_table,
                   pull_request_review_message_ref_table, cfailed, cexc,
                   fvars, pvars, rvars, nvars, dvars, kvars, evars, qvars>>

\* lines 695-698: in pr_comments_insert the exception of the insert is
\* logged; line 1080 of the reviews model is in no try statement
MessageInsertFails ==
    /\ cpc = "message_insert"
    /\ clog' = Append(clog, cpc)
    /\ cfailed' = cfailed \cup {cpc}
    /\ IF cmodel = "comments"
       THEN cpc' = StepAfter(cpc) /\ cexc' = cexc
       ELSE CommentsRaise("StorageError")
    /\ UNCHANGED <<cmodel, inc_pr_comments, message_table, pull_requests_table,
                   pull_request_reviews_table, c_pk_source_comments,
                   both_pk_source_comments, cbound, pr_message_ref_insert,
                   pull_request_message_ref_table,
                   pull_request_review_message_ref_table,
                   fvars, pvars, rvars, nvars, dvars, kvars, evars, qvars>>

\* lines 702-707, 1085-1088: the comments are merged with the message table
\* on id = platform_msg_id
EnrichMessages ==
    /\ cpc = "enrich_messages"
    /\ c_pk_source_comments' =
           EnrichDataPrimaryKeys(inc_pr_comments, message_table, "id", "msg_id")
    /\ cbound' = cbound \cup {"c_pk_source_comments"}
    /\ clog' = Append(clog, cpc)
    /\ cpc' = StepAfter(cpc)
    /\ UNCHANGED <<cmodel, inc_pr_comments, message_table, pull_requests_table,
                   pull_request_reviews_table, both_pk_source_comments,
                   pr_message_ref_insert, pull_request_message_ref_table,
                   pull_request_review_message_ref_table, cfailed, cexc,
                   fvars, pvars, rvars, nvars, dvars, kvars, evars, qvars>>

\* lines 709-715: the handler of pr_comments_insert reads
\* c_pk_source_comments, which the failed assignment left unbound (line 713,
\* and line 715 after it); line 1085 of the reviews model is in no try
EnrichMessagesFails ==
    /\ cpc = "enrich_messages"
    /\ clog' = Append(clog, cpc)
    /\ cfailed' = cfailed \cup {cpc}
    /\ IF cmodel = "comments"
       THEN CommentsRaise("UnboundLocalError")
       ELSE CommentsRaise("StorageError")
    /\ UNCHANGED <<cmodel, inc_pr_comments, message_table, pull_requests_table,
                   pull_request_reviews_table, c_pk_source_comments,
                   both_pk_source_comments, cbound, pr_message_ref_insert,
                   pull_request_message_ref_table,
                   pull_request_review_message_ref_table,
                   fvars, pvars, rvars, nvars, dvars, kvars, evars, qvars>>

\* lines 717-725, 1096-1099: the result is merged with the parent table
EnrichParents ==
    /\ cpc = "enrich_parents"
    /\ both_pk_source_comments' =
           EnrichDataPrimaryKeys(c_pk_source_comments, ParentKeys(cmodel),
                                 ParentField(cmodel), ParentPk(cmodel))
    /\ cbound' = cbound \cup {"both_pk_source_comments"}
    /\ clog' = Append(clog, cpc)
    /\ cpc' = StepAfter(cpc)
    /\ UNCHANGED <<cmodel, inc_pr_comments, message_table, pull_requests_table,
                   pull_request_reviews_table, c_pk_source_comments,
                   pr_message_ref_insert, pull_request_message_ref_table,
                   pull_request_review_message_ref_table, cfailed, cexc,
                   fvars, pvars, rvars, nvars, dvars, kvars, evars, qvars>>

\* lines 727-732: the handler of pr_comments_insert logs, and line 732 reads
\* both_pk_source_comments, which is unbound; line 1096 is in no try
EnrichParentsFails ==
    /\ cpc = "enrich_parents"
    /\ clog' = Append(clog, cpc)
    /\ cfailed' = cfailed \cup {cpc}
    /\ IF cmodel = "comments"
       THEN CommentsRaise("UnboundLocalError")
       ELSE CommentsRaise("StorageError")
    /\ UNCHANGED <<cmodel, inc_pr_comments, message_table, pull_requests_table,
                   pull_request_reviews_table, c_pk_source_comments,
                   both_pk_source_comments, cbound, pr_message_ref_insert,
                   pull_request_message_ref_table,
                   pull_request_review_message_ref_table,
                   fvars, pvars, rvars, nvars, dvars, kvars, evars, qvars>>

\* lines 733-748, 1102-1154: the reference rows are built and inserted
RefInsert ==
    /\ cpc = "ref_insert"
    /\ pr_message_ref_insert' = RefRows(cmodel, both_pk_source_comments)
    /\ IF cmodel = "comments"
       THEN /\ pull_request_message_ref_table' =
                   BulkInsert(pull_request_message_ref_table,
                              pr_message_ref_insert')
            /\ UNCHANGED pull_request_review_message_ref_table
       ELSE /\ pull_request_review_message_ref_table' =
                   BulkInsert(pull_request_review_message_ref_table,
                              pr_message_ref_insert')
            /\ UNCHANGED pull_request_message_ref_table
    /\ clog' = Append(clog, cpc)
    /\ cpc' = StepAfter(cpc)
    /\ UNCHANGED <<cmodel, inc_pr_comments, message_table, pull_requests_table,
                   pull_request_reviews_table, c_pk_source_comments,
                   both_pk_source_comments, cbound, cfailed, cexc,
                   fvars, pvars, rvars, nvars, dvars, kvars, evars, qvars>>

\* lines 750-755, 1155-1158: the exception of the insert is logged
RefInsertFails ==
    /\ cpc = "ref_insert"
    /\ pr_message_ref_insert' = RefRows(cmodel, both_pk_source_comments)
    /\ clog' = Append(clog, cpc)
    /\ cfailed' = cfailed \cup {cpc}
    /\ cpc' = StepAfter(cpc)
    /\ UNCHANGED <<cmodel, inc_pr_comments, message_table, pull_requests_table,
                   pull_request_reviews_table, c_pk_source_comments,
                   both_pk_source_comments, cbound,
                   pull_request_message_ref_table,
                   pull_request_review_message_ref_table, cexc,
                   fvars, pvars, rvars, nvars, dvars, kvars, evars, qvars>>

NextComments ==
    \/ BuildRows
    \/ MessageInsert
    \/ MessageInsertFails
    \/ EnrichMessages
    \/ EnrichMessagesFails
    \/ EnrichParents
    \/ EnrichParentsFails
    \/ RefInsert
    \/ RefInsertFails

InitComments ==
    FilesIdle /\ PRsIdle /\ ReconIdle /\ NestedIdle /\ CommentsStart /\ NestedDataIdle
    /\ CommitsIdle /\ EventsIdle /\ RepoIdle

SpecComments == InitComments /\ [][NextComments]_vars

(***************************************************************************)
(* Properties of pr_comments_insert and of the review messages             *)
(* (SpecComments).                                                         *)
(***************************************************************************)
\* the reference rows a call has inserted
RefTable ==
    pull_request_message_ref_table \cup pull_request_review_message_ref_table

\* C22: in the comments model every reference row, submitted or inserted,
\* carries the key of a persisted pull request, which is not null, and it is
\* the pull request whose pr_url is the pull_request_url of the comment; a
\* comment whose pull_request_url matches no persisted pull request has no
\* reference row.
C22_RefRowsHavePersistedParent ==
    cmodel = "comments" =>
        /\ \A row \in pr_message_ref_insert \cup pull_request_message_ref_table :
              /\ row.parent_id # Null
              /\ row.parent_id \in pull_requests_table
              /\ \E c \in inc_pr_comments :
                    c.id = row.src_comment_id /\ c.pull_request_url = row.parent_id
        /\ \A c \in inc_pr_comments :
              c.pull_request_url \notin pull_requests_table =>
                 \A row \in pr_message_ref_insert \cup pull_request_message_ref_table :
                    row.src_comment_id # c.id

\* one comment of the batch got its reference row, another of the same batch
\* has a message row and no persisted pull request, and got none
C22_Witness ==
    /\ cmodel = "comments"
    /\ cpc = "done"
    /\ pull_request_message_ref_table # {}
    /\ \E c \in inc_pr_comments :
          /\ c.id \in message_table
          /\ c.pull_request_url \notin pull_requests_table

\* C29: a failure of one of the four steps of pr_comments_insert is caught and
\* logged: no exception leaves pr_comments_insert because of it.
C29_StepFailuresContained ==
    (cmodel = "comments" /\ cfailed # {}) => (cpc # "raised" /\ cexc = NoExc)

\* C30: in both models reference rows are submitted only when the message
\* insert has been attempted before, and each submitted row is for a comment
\* of the batch that matched a row of the message table on platform_msg_id.
C30_RefRowsAfterMessageInsert ==
    /\ ((\E i \in DOMAIN clog : clog[i] = "ref_insert")
           \/ pr_message_ref_insert # {} \/ RefTable # {})
          => (clog # << >> /\ clog[1] = "message_insert")
    /\ \A row \in pr_message_ref_insert \cup RefTable :
          /\ row.src_comment_id \in message_table
          /\ row.msg_id = row.src_comment_id
          /\ \E c \in inc_pr_comments : c.id = row.src_comment_id

\* the message insert of pr_comments_insert failed, and the reference row of a
\* comment whose message an earlier call had stored was submitted; a comment
\* without a message row got none
C30_Witness ==
    /\ cpc = "done"
    /\ "message_insert" \in cfailed
    /\ pr_message_ref_insert # {}
    /\ \E c \in inc_pr_comments : c.id \notin message_table

(***************************************************************************)
(* pull_request_nested_data_model (lines 1160-1390): for each pull request *)
(* the labels, reviewers, assignees and head/base records are collected,   *)
(* then the four insertion stages are run.                                 *)
(***************************************************************************)
NestedFields == << "labels", "requested_reviewers", "assignees", "head", "base" >>

\* what the record of a pull request holds for a field: a value of the
\* expected type, JSON null, or no such key
FieldStates == {"value", "null", "missing"}

WellFormed == [f \in 1..Len(NestedFields) |-> "value"]

\* the shapes of a pull request record: well formed, or malformed in one field
PRShapes ==
    {[WellFormed EXCEPT ![f] = state] :
        f \in 1..Len(NestedFields), state \in FieldStates}

\* the pk_source_prs the model can be handed
NestedBatches == UNION {[1..n -> PRShapes] : n \in 0..NumPRs}

IsListField(f) == f <= 3

RECURSIVE CollectFrom(_, _)
\* lines 1185-1206, statement by statement: pr[field] raises KeyError when the
\* key is missing; pd.DataFrame(None) is the empty frame, so a null list is
\* no rows; None.update(...) raises AttributeError
CollectFrom(shape, f) ==
    IF f > Len(NestedFields) THEN "ok"
    ELSE IF shape[f] = "missing" THEN "KeyError"
    ELSE IF shape[f] = "null" /\ ~IsListField(f) THEN "AttributeError"
    ELSE CollectFrom(shape, f + 1)

CollectOutcome(shape) == CollectFrom(shape, 1)

\* lines 1212, 1250, 1293, 1339: the stage of each value of pr_nested_loop
StageNames == << "labels", "reviewers", "assignees", "meta" >>

\* variant: the handler steps back to the stage that raised
RetryStage(n) == n - 1

\* lines 1386-1390: `continue` with pr_nested_loop as the branch left it, and
\* every branch starts with pr_nested_loop += 1
LoopAfterRaise(n) == n

NestedDataControl == {"idle", "next_pr", "stages", "done", "raised"}

\* the model is called with pull requests (lines 1160-1180)
NestedDataStart ==
    /\ dpc = "next_pr"
    /\ nested_prs \in NestedBatches
    /\ index = 1
    /\ pr_nested_loop = 0
    /\ attempts = << >>
    /\ stage_raised = {}
    /\ looped = {}
    /\ dexc = NoExc

\* lines 1182-1209: the next pull request; its records are collected, outside
\* every try statement
CollectRows ==
    /\ dpc = "next_pr"
    /\ index <= Len(nested_prs)
    /\ IF CollectOutcome(nested_prs[index]) = "ok"
       THEN /\ dpc' = "stages"
            /\ pr_nested_loop' = 1
            /\ dexc' = dexc
       ELSE /\ dpc' = "raised"
            /\ dexc' = CollectOutcome(nested_prs[index])
            /\ pr_nested_loop' = pr_nested_loop
    /\ attempts' = << >>
    /\ stage_raised' = {}
    /\ UNCHANGED <<nested_prs, index, looped, fvars, pvars, rvars, nvars, cvars, kvars, evars, qvars>>

\* lines 1210-1384: the branch of the stage runs to its bulk_insert
StageRuns ==
    /\ dpc = "stages"
    /\ pr_nested_loop < 5
    /\ attempts' = Append(attempts, StageNames[pr_nested_loop])
    /\ pr_nested_loop' = pr_nested_loop + 1
    /\ UNCHANGED <<dpc, nested_prs, index, stage_raised, looped, dexc,
                   fvars, pvars, rvars, nvars, cvars, kvars, evars, qvars>>

\* lines 1386-1390: a statement of the branch raises, after the increment
StageRaises ==
    /\ dpc = "stages"
    /\ pr_nested_loop < 5
    /\ attempts' = Append(attempts, StageNames[pr_nested_loop])
    /\ stage_raised' = stage_raised \cup {StageNames[pr_nested_loop]}
    /\ pr_nested_loop' = LoopAfterRaise(pr_nested_loop + 1)
    /\ UNCHANGED <<dpc, nested_prs, index, looped, dexc,
                   fvars, pvars, rvars, nvars, cvars, kvars, evars, qvars>>

\* line 1210: pr_nested_loop < 5 is false; line 1182: the next index
StagesEnd ==
    /\ dpc = "stages"
    /\ pr_nested_loop >= 5
    /\ looped' = looped \cup {index}
    /\ index' = index + 1
    /\ dpc' = "next_pr"
    /\ UNCHANGED <<nested_prs, pr_nested_loop, attempts, stage_raised, dexc,
                   fvars, pvars, rvars, nvars, cvars, kvars, evars, qvars>>

\* line 1182: no pull request is left; the model returns
NestedDataReturn ==
    /\ dpc = "next_pr"
    /\ index > Len(nested_prs)
    /\ dpc' = "done"
    /\ UNCHANGED <<nested_prs, index, pr_nested_loop, attempts, stage_raised,
                   looped, dexc, fvars, pvars, rvars, nvars, cvars, kvars, evars, qvars>>

NextNestedData ==
    \/ CollectRows
    \/ StageRuns
    \/ StageRaises
    \/ StagesEnd
    \/ NestedDataReturn

InitNestedData ==
    FilesIdle /\ PRsIdle /\ ReconIdle /\ NestedIdle /\ CommentsIdle /\ NestedDataStart
    /\ CommitsIdle /\ EventsIdle /\ RepoIdle

SpecNestedData == InitNestedData /\ [][NextNestedData]_vars

(***************************************************************************)
(* Properties of pull_request_nested_data_model (SpecNestedData).          *)
(***************************************************************************)
\* the first n stages, in order
StagePrefix(n) == SubSeq(StageNames, 1, n)

\* C24: a pull request that is malformed in one of labels,
\* requested_reviewers, assignees, head, base does not abort the batch: no
\* exception leaves the model, and when the model returns the stage loop has
\* run for every pull request that is well formed.
C24_MalformedPRDoesNotAbort ==
    /\ dpc # "raised"
    /\ dexc = NoExc
    /\ dpc = "done" =>
          \A i \in DOMAIN nested_prs : nested_prs[i] = WellFormed => i \in looped

\* C28: the stage loop of a pull request attempts labels, reviewers, assignees
\* and meta in this order, each once, whichever of them raised, and ends when
\* the four have been attempted.
C28_StagesOnceInOrder ==
    /\ dpc = "stages" =>
          /\ pr_nested_loop \in 1..5
          /\ attempts = StagePrefix(pr_nested_loop - 1)
          /\ stage_raised \subseteq {attempts[i] : i \in DOMAIN attempts}
          /\ (pr_nested_loop = 5) = ENABLED StagesEnd
    /\ (dpc = "next_pr" /\ looped # {}) => attempts = StageNames

\* every stage of a pull request raised, and the loop ended with each stage
\* attempted once
C28_Witness ==
    /\ dpc = "next_pr"
    /\ (index - 1) \in looped
    /\ attempts = StageNames
    /\ stage_raised = {StageNames[i] : i \in DOMAIN StageNames}

\* C31: a run of pull_request_files_model emits its completion signal once,
\* when it ends, and by then every update record and every insert record has
\* been written; the insert is attempted only when the update loop has ended.
C31_SignalAfterBothWrites ==
    /\ fsignals = (IF fpc = "done" THEN 1 ELSE 0)
    /\ (fsignals > 0 /\ HasRows(pr_file_rows)) =>
          pull_request_files =
              ExecuteUpdates(table_values, need_updates) \o need_insertion
    /\ fpc = "classified" =>
          /\ write_errors.insert = 0
          /\ pull_request_files = table_values
    /\ fpc = "updated" =>
          pull_request_files = ExecuteUpdates(table_values, need_updates)

\* the signal was emitted after an update that changed a stored row and an
\* insert, each accepted after errors
C31_Witness ==
    /\ fpc = "done"
    /\ fsignals = 1
    /\ write_errors.update > 0
    /\ write_errors.insert > 0
    /\ Len(need_insertion) > 0
    /\ ExecuteUpdates(table_values, need_updates) # table_values

\* C32: when the fetch loop returned no row, the run classifies nothing,
\* writes nothing, leaves the table as it read it and ends with the
\* completion signal.
C32_NoRowsNoWrites ==
    Len(remote_rows) = 0 =>
        /\ fpc \in {"fetched", "done"}
        /\ need_insertion = << >>
        /\ need_updates = << >>
        /\ write_errors = NoWriteErrors
        /\ fpc = "done" =>
              /\ pull_request_files = table_values
              /\ fsignals = 1

\* nothing was fetched for a repository whose table holds rows; the run has
\* ended with the signal
C32_Witness ==
    /\ Len(remote_rows) = 0
    /\ fpc = "done"
    /\ Len(pull_request_files) > 0
    /\ pull_request_files = table_values
    /\ fsignals = 1

MaxCommits == 2

\* a commit as self.paginate returns it: its flag, and whether it has the
\* keys that lines 363-365 read
Commits == [flag : {"need_insertion", "none"}, wellformed : BOOLEAN]

\* what self.paginate can return for a pull request
CommitLists == UNION {[1..n -> Commits] : n \in 0..MaxCommits}

\* variant: the handler leaves the loop over the commits
BreakOnRaise(at, commits) == Len(commits) + 1

\* lines 378-382: the handler logs and continues with the next commit
PositionAfterRaise(at, commits) == at + 1

\* the model is called for a repository with urls pull requests (line 342)
CommitsStart ==
    /\ kpc = "next_pr"
    /\ urls \in 0..NumPRs
    /\ pull_request = 1
    /\ pr_commits = << >>
    /\ position = 0
    /\ commit_rows = {}
    /\ commit_raised = {}
    /\ ksignals = 0

\* lines 344-356: the commits of the next pull request are fetched
CommitsPaginate ==
    /\ kpc = "next_pr"
    /\ pull_request <= urls
    /\ pr_commits' \in CommitLists
    /\ position' = 1
    /\ commit_rows' = {}
    /\ commit_raised' = {}
    /\ kpc' = "commits"
    /\ UNCHANGED <<urls, pull_request, ksignals,
                   fvars, pvars, rvars, nvars, cvars, dvars, evars, qvars>>

\* line 353 is in no try statement: an exception of self.paginate leaves the
\* model
CommitsPaginateRaises ==
    /\ kpc = "next_pr"
    /\ pull_request <= urls
    /\ kpc' = "raised"
    /\ UNCHANGED <<urls, pull_request, pr_commits, position, commit_rows,
                   commit_raised, ksignals,
                   fvars, pvars, rvars, nvars, cvars, dvars, evars, qvars>>

\* lines 358-382 for one commit, the insert succeeding: a commit with another
\* flag is passed over, a commit without the keys raises KeyError at lines
\* 363-365, which the handler logs
CommitHandled ==
    /\ kpc = "commits"
    /\ position <= Len(pr_commits)
    /\ IF pr_commits[position].flag # "need_insertion"
       THEN /\ position' = position + 1
            /\ UNCHANGED <<commit_rows, commit_raised>>
       ELSE IF ~pr_commits[position].wellformed
       THEN /\ commit_raised' = commit_raised \cup {position}
            /\ position' = PositionAfterRaise(position, pr_commits)
            /\ UNCHANGED commit_rows
       ELSE /\ commit_rows' = commit_rows \cup {position}
            /\ position' = position + 1
            /\ UNCHANGED commit_raised
    /\ UNCHANGED <<kpc, urls, pull_request, pr_commits, ksignals,
                   fvars, pvars, rvars, nvars, cvars, dvars, evars, qvars>>

\* lines 372-382: db.execute of the insert raises; the handler logs
CommitInsertFails ==
    /\ kpc = "commits"
    /\ position <= Len(pr_commits)
    /\ pr_commits[position].flag = "need_insertion"
    /\ pr_commits[position].wellformed
    /\ commit_raised' = commit_raised \cup {position}
    /\ position' = PositionAfterRaise(position, pr_commits)
    /\ UNCHANGED <<kpc, urls, pull_request, pr_commits, commit_rows, ksignals,
                   fvars, pvars, rvars, nvars, cvars, dvars, evars, qvars>>

\* line 358: no commit is left; line 344: the next pull request
CommitsEnd ==
    /\ kpc = "commits"
    /\ position > Len(pr_commits)
    /\ pull_request' = pull_request + 1
    /\ kpc' = "next_pr"
    /\ UNCHANGED <<urls, pr_commits, position, commit_rows, commit_raised,
                   ksignals,
                   fvars, pvars, rvars, nvars, cvars, dvars, evars, qvars>>

\* line 384: register_task_completion(..., 'pull_request_commits')
CommitsSignal ==
    /\ kpc = "next_pr"
    /\ pull_request > urls
    /\ ksignals' = ksignals + 1
    /\ kpc' = "done"
    /\ UNCHANGED <<urls, pull_request, pr_commits, position, commit_rows,
                   commit_raised,
                   fvars, pvars, rvars, nvars, cvars, dvars, evars, qvars>>

NextCommits ==
    \/ CommitsPaginate
    \/ CommitsPaginateRaises
    \/ CommitHandled
    \/ CommitInsertFails
    \/ CommitsEnd
    \/ CommitsSignal

InitCommits ==
    /\ FilesIdle /\ PRsIdle /\ ReconIdle /\ NestedIdle /\ CommentsIdle
    /\ NestedDataIdle /\ CommitsStart /\ EventsIdle /\ RepoIdle

SpecCommits == InitCommits /\ [][NextCommits]_vars

\* C33: the commits inserted are commits flagged 'need_insertion'; every
\* commit the loop has passed that is so flagged was inserted unless its own
\* handling raised, whatever happened to the commits before it; the loop over
\* the commits of a pull request ends after its last commit and the loop over
\* the pull requests after the last pull request; and the completion signal
\* is emitted once, then.
C33_CommitFailuresContained ==
    /\ kpc \in {"commits", "next_pr", "done"} =>
          /\ \A i \in commit_rows :
                i \in DOMAIN pr_commits /\ pr_commits[i].flag = "need_insertion"
          /\ \A i \in DOMAIN pr_commits :
                (i < position /\ pr_commits[i].flag = "need_insertion"
                   /\ i \notin commit_raised) => i \in commit_rows
    /\ (kpc \in {"next_pr", "done"} /\ pull_request > 1) =>
          position = Len(pr_commits) + 1
    /\ ksignals = (IF kpc = "done" THEN 1 ELSE 0)
    /\ kpc = "done" => pull_request = urls + 1

\* the handling of the first commit of the last pull request raised, a later
\* commit of it was inserted, and the model ended with its signal
C33_Witness ==
    /\ kpc = "done"
    /\ urls = NumPRs
    /\ 1 \in commit_raised
    /\ \E i \in commit_rows : i > 1
    /\ ksignals = 1

(***************************************************************************)
(* pull_request_events_model (lines 787-890): the fetched events are       *)
(* merged with the pull requests, their actors are resolved, and the event *)
(* rows are inserted.                                                      *)
(***************************************************************************)
NumEvents == 3

\* `id` of the events the endpoint can return
EventIds == 1..NumEvents

\* issue.url of an event, pr_issue_url of a pull request
IssueUrls == {1, 2}

\* an issue event: its actor is a user with a login, a record from which no
\* contributor can be resolved, or null; pull_request_id is what the merge
\* attaches
Events ==
    [id : EventIds, issue_url : IssueUrls,
     actor : {"login", "malformed", "null"}, pull_request_id : {Null}]

\* pr_events['insert']: events with distinct ids
EventBatches ==
    {B \in SUBSET Events : \A x, y \in B : x.id = y.id => x = y}

\* lines 841-849: enrich_cntrb_id leaves the contributor id of an event whose
\* actor is null or malformed null
ActorCntrbId(event) == IF event.actor = "login" THEN event.id ELSE Null

\* variant: the comprehension has no condition
SubmitEveryEvent(event) == TRUE

\* line 883: `if event['actor'] is not None`
SubmittedEvent(event) == event.actor # "null"

\* lines 866-868: `event['cntrb_id'] if event['cntrb_id'] else
\* is_nan(event['cntrb_id'])`, evaluated for the events the condition of line
\* 883 lets through; is_nan is no name of the function nor of the module
EventsBuildOutcome(events) ==
    IF \E e \in events : SubmittedEvent(e) /\ ActorCntrbId(e) = Null
    THEN "NameError" ELSE "ok"

\* lines 863-884: one row for each event the condition lets through
EventRows(events) ==
    {[pull_request_id |-> e.pull_request_id, cntrb_id |-> ActorCntrbId(e),
      pr_platform_event_id |-> e.id] : e \in {x \in events : SubmittedEvent(x)}}

\* the model has fetched a batch of events (line 813)
EventsStart ==
    /\ epc = "enrich"
    /\ pr_events \in EventBatches
    /\ pr_issue_urls \in SUBSET IssueUrls
    /\ pk_pr_events = {}
    /\ pr_events_insert = {}
    /\ pull_request_events = {}
    /\ eexc = NoExc

\* lines 831-849: the events are merged with the pull requests on
\* issue.url = pr_issue_url, then their actors are resolved
EventsEnrich ==
    /\ epc = "enrich"
    /\ pk_pr_events' =
           EnrichDataPrimaryKeys(pr_events, pr_issue_urls, "issue_url",
                                 "pull_request_id")
    /\ epc' = "build"
    /\ UNCHANGED <<pr_events, pr_issue_urls, pr_events_insert,
                   pull_request_events, eexc,
                   fvars, pvars, rvars, nvars, cvars, dvars, kvars, qvars>>

\* lines 853-884: the rows are built, in no try statement
EventsBuild ==
    /\ epc = "build"
    /\ IF EventsBuildOutcome(pk_pr_events) = "ok"
       THEN /\ pr_events_insert' = EventRows(pk_pr_events)
            /\ epc' = "insert"
            /\ eexc' = eexc
       ELSE /\ epc' = "raised"
            /\ eexc' = EventsBuildOutcome(pk_pr_events)
            /\ pr_events_insert' = pr_events_insert
    /\ UNCHANGED <<pr_events, pr_issue_urls, pk_pr_events, pull_request_events,
                   fvars, pvars, rvars, nvars, cvars, dvars, kvars, qvars>>

\* lines 886-890: bulk_insert of the rows, then return
EventsInsert ==
    /\ epc = "insert"
    /\ pull_request_events' =
           BulkInsert(pull_request_events,
                      {row.pr_platform_event_id : row \in pr_events_insert})
    /\ epc' = "done"
    /\ UNCHANGED <<pr_events, pr_issue_urls, pk_pr_events, pr_events_insert,
                   eexc,
                   fvars, pvars, rvars, nvars, cvars, dvars, kvars, qvars>>

\* line 886 is in no try statement: an exception of bulk_insert leaves the
\* model
EventsInsertFails ==
    /\ epc = "insert"
    /\ epc' = "raised"
    /\ eexc' = "StorageError"
    /\ UNCHANGED <<pr_events, pr_issue_urls, pk_pr_events, pr_events_insert,
                   pull_request_events,
                   fvars, pvars, rvars, nvars, cvars, dvars, kvars, qvars>>

NextEvents ==
    \/ EventsEnrich
    \/ EventsBuild
    \/ EventsInsert
    \/ EventsInsertFails

InitEvents ==
    /\ FilesIdle /\ PRsIdle /\ ReconIdle /\ NestedIdle /\ CommentsIdle
    /\ NestedDataIdle /\ CommitsIdle /\ EventsStart /\ RepoIdle

SpecEvents == InitEvents /\ [][NextEvents]_vars

\* the fetched event matched a persisted pull request
Matched(e) == e.issue_url \in pr_issue_urls

\* C34: every row handed to bulk_insert is the row of a fetched event whose
\* actor is not null and whose issue URL is that of a persisted pull request,
\* whose key it carries; when the rows are handed over, every matched event
\* with a resolved actor has its row; and events with a null actor or without
\* a pull request are not what makes the building of the rows raise.
C34_EventRowsMatchedWithActor ==
    /\ \A row \in pr_events_insert :
          \E e \in pr_events :
             /\ e.id = row.pr_platform_event_id
             /\ e.actor # "null"
             /\ Matched(e)
             /\ row.pull_request_id = e.issue_url
             /\ row.pull_request_id # Null
    /\ epc \in {"insert", "done"} =>
          \A e \in pr_events :
             (e.actor = "login" /\ Matched(e)) =>
                \E row \in pr_events_insert : row.pr_platform_event_id = e.id
    /\ (epc = "raised" /\ eexc = "NameError") =>
          \E e \in pr_events : e.actor = "malformed" /\ Matched(e)

\* the batch held an event with a null actor and an event that matched no
\* pull request; the rows of the others were inserted
C34_Witness ==
    /\ epc = "done"
    /\ \E e \in pr_events : e.actor = "null" /\ Matched(e)
    /\ \E e \in pr_events : ~Matched(e)
    /\ pr_events_insert # {}

(***************************************************************************)
(* query_pr_repo (lines 1392-1445): the repo record of the head or base of *)
(* a pull request is compared with the table and inserted when new.        *)
(***************************************************************************)
MaxCalls == 3

\* pr_src_repo_id of the repositories
RepoIds == {1, 2}

\* what assign_tuple_action returns at line 1408: the record with its flag,
\* and whether it has the keys that lines 1412-1425 read
Repos ==
    [id : RepoIds, type : {"head", "base"},
     flag : {"need_insertion", "none"}, wellformed : BOOLEAN]

\* lines 1441-1445: the handler logs e, then formats pr_nested_loop, which is
\* no name of the function nor of the module: NameError leaves the handler
HandlerOutcome(exception) == "NameError"

\* query_pr_repo(pr_repo, pr_repo_type, pr_meta_id) is called
RepoCall ==
    /\ qpc = "idle"
    /\ calls < MaxCalls
    /\ calls' = calls + 1
    /\ new_pr_repo' \in Repos
    /\ qpc' = "build"
    /\ UNCHANGED <<pull_request_repo, results_counter, qexc,
                   fvars, pvars, rvars, nvars, cvars, dvars, kvars, evars>>

\* lines 1406-1410: get_table_values or assign_tuple_action raises
RepoAssignFails ==
    /\ qpc = "build"
    /\ qpc' = "raised"
    /\ qexc' = HandlerOutcome("StorageError")
    /\ UNCHANGED <<calls, new_pr_repo, pull_request_repo, results_counter,
                   fvars, pvars, rvars, nvars, cvars, dvars, kvars, evars>>

\* lines 1412-1432: the row is built (KeyError when a key is missing), and
\* the flag is tested
RepoBuild ==
    /\ qpc = "build"
    /\ IF ~new_pr_repo.wellformed
       THEN qpc' = "raised" /\ qexc' = HandlerOutcome("KeyError")
       ELSE /\ qpc' = (IF new_pr_repo.flag = "need_insertion"
                       THEN "insert" ELSE "idle")
            /\ qexc' = qexc
    /\ UNCHANGED <<calls, new_pr_repo, pull_request_repo, results_counter,
                   fvars, pvars, rvars, nvars, cvars, dvars, kvars, evars>>

\* lines 1433-1440: the row is inserted and results_counter incremented
RepoInsert ==
    /\ qpc = "insert"
    /\ pull_request_repo' =
           pull_request_repo \cup {<<new_pr_repo.id, new_pr_repo.type>>}
    /\ results_counter' = results_counter + 1
    /\ qpc' = "idle"
    /\ UNCHANGED <<calls, new_pr_repo, qexc,
                   fvars, pvars, rvars, nvars, cvars, dvars, kvars, evars>>

\* line 1433: db.execute raises
RepoInsertFails ==
    /\ qpc = "insert"
    /\ qpc' = "raised"
    /\ qexc' = HandlerOutcome("StorageError")
    /\ UNCHANGED <<calls, new_pr_repo, pull_request_repo, results_counter,
                   fvars, pvars, rvars, nvars, cvars, dvars, kvars, evars>>

NextRepo ==
    \/ RepoCall
    \/ RepoAssignFails
    \/ RepoBuild
    \/ RepoInsert
    \/ RepoInsertFails

InitRepo ==
    /\ FilesIdle /\ PRsIdle /\ ReconIdle /\ NestedIdle /\ CommentsIdle
    /\ NestedDataIdle /\ CommitsIdle /\ EventsIdle /\ RepoIdle

SpecRepo == InitRepo /\ [][NextRepo]_vars

\* C36: no exception leaves query_pr_repo; a row is inserted and
\* results_counter incremented only in a call whose record is flagged
\* 'need_insertion'.
C36_QueryPrRepoNeverRaises ==
    /\ qpc # "raised"
    /\ qexc = NoExc
    /\ qpc = "insert" => new_pr_repo.flag = "need_insertion"
    /\ results_counter <= calls
    /\ Cardinality(pull_request_repo) <= results_counter

====
